---- MODULE Spec2Model ----
(***************************************************************************)
(* We3Vision backend: identity and access middleware, blog / job / asset   *)
(* / media routes and the derived fields of the Blog and Job models.       *)
(*                                                                         *)
(* Strings whose characters matter (titles, slugs) are sequences of        *)
(* one-character strings.  ObjectIds are natural numbers drawn from one    *)
(* counter, so an id is never reused and a blog id never equals a comment  *)
(* id.                                                                     *)
(***************************************************************************)
EXTENDS Naturals, Integers, Sequences, FiniteSets, TLC

VARIABLES
    users,      \* User collection: id -> record, or NoUser
    blogs,      \* Blog collection: set of blog documents
    jobs,       \* Job collection: set of job documents
    assets,     \* Asset collection: set of asset mappings
    uploads,    \* names of the files in the uploads directory
    nextId,     \* next ObjectId the driver generates
    clock,      \* Date.now(), in milliseconds
    conns,      \* per connection: a blog create awaiting Blog.create, or its answer
    last,       \* the request answered most recently and its response
    fnIn,       \* input of the derived-field function under evaluation
    fnOut       \* its result

vars == <<users, blogs, jobs, assets, uploads, nextId, clock, conns, last, fnIn, fnOut>>
stores == <<blogs, jobs, assets, uploads>>

(***************************************************************************)
(* Bounds of the model.                                                    *)
(***************************************************************************)
MaxTitleLen == 4      \* longest title enumerated for the slug functions
MaxConns == 2         \* connections that may hold a blog create in flight
MaxIds == 2           \* ObjectIds the driver hands out (blogs, comments, jobs)
MaxFiles == 2         \* files the uploads directory may hold
MaxViews == 2         \* view counter values that are told apart
MaxLikes == 3         \* most entries of a blog's likes
MaxClock == 2         \* milliseconds the clock may advance

Conns == 1..MaxConns
FileNames == 1..MaxFiles

(***************************************************************************)
(* Characters.                                                             *)
(***************************************************************************)
LowerChars == {"a", "b", "j", "o", "z"}
DigitChars == {"7"}
SpaceChars == {" "}
HyphenChar == "-"

RECURSIVE SeqsUpTo(_, _)
SeqsUpTo(S, n) ==
    IF n = 0 THEN {<<>>}
    ELSE LET shorter == SeqsUpTo(S, n - 1)
         IN  shorter \cup {Append(s, c) : s \in {t \in shorter : Len(t) = n - 1}, c \in S}

(***************************************************************************)
(* Slug normalisation chain of Blog.js / job.js.                           *)
(***************************************************************************)
\* String.prototype.toLowerCase
toLowerCase(s) == [i \in 1..Len(s) |-> IF s[i] = "Z" THEN "z" ELSE s[i]]

\* .replace(/[^a-z0-9\s-]/g, '')
stripDisallowed(s) ==
    SelectSeq(s, LAMBDA c : c \in LowerChars \cup DigitChars \cup SpaceChars \cup {HyphenChar})

\* String.prototype.split(sep) for a one-character separator
RECURSIVE split(_, _)
split(s, sep) ==
    IF \A i \in 1..Len(s) : s[i] # sep
    THEN <<s>>
    ELSE LET k == CHOOSE i \in 1..Len(s) : s[i] = sep /\ \A j \in 1..(i - 1) : s[j] # sep
         IN  <<SubSeq(s, 1, k - 1)>> \o split(SubSeq(s, k + 1, Len(s)), sep)

RECURSIVE dropWhileIn(_, _)
dropWhileIn(s, S) ==
    IF s = <<>> THEN <<>>
    ELSE IF Head(s) \in S THEN dropWhileIn(Tail(s), S) ELSE s

\* .replace(/X+/g, '-') for a character class X
RECURSIVE runsToHyphen(_, _)
runsToHyphen(s, S) ==
    IF s = <<>> THEN <<>>
    ELSE IF Head(s) \in S
         THEN <<HyphenChar>> \o runsToHyphen(dropWhileIn(Tail(s), S), S)
         ELSE <<Head(s)>> \o runsToHyphen(Tail(s), S)

\* .replace(/\s+/g, '-')
spacesToHyphen(s) == runsToHyphen(s, SpaceChars)

\* .replace(/-+/g, '-')
collapseHyphensKeepRuns(s) == s
collapseHyphens(s) == runsToHyphen(s, {HyphenChar})

RECURSIVE dropTrailingIn(_, _)
dropTrailingIn(s, S) ==
    IF s = <<>> THEN <<>>
    ELSE IF s[Len(s)] \in S THEN dropTrailingIn(SubSeq(s, 1, Len(s) - 1), S) ELSE s

\* .replace(/^-+|-+$/g, '')
trimHyphens(s) == dropTrailingIn(dropWhileIn(s, {HyphenChar}), {HyphenChar})

\* the chain with the hyphen trim applied before the whitespace replacement
normalizeTrimFirst(title) ==
    collapseHyphens(spacesToHyphen(trimHyphens(stripDisallowed(toLowerCase(title)))))

normalize(title) ==
    trimHyphens(collapseHyphens(spacesToHyphen(stripDisallowed(toLowerCase(title)))))

\* job.js: baseSlug, with the 'job' fallback for an empty result
jobBaseSlug(title) ==
    LET baseSlug == normalize(title)
    IN  IF baseSlug = <<>> THEN <<"j", "o", "b">> ELSE baseSlug

(***************************************************************************)
(* Identities, credentials and the auth middleware (middleware/auth).      *)
(***************************************************************************)
UserIds == {"u1", "u2", "u3"}
NoUser == [role |-> "none", isActive |-> FALSE]
InitUsers ==
    [u \in UserIds |-> [role |-> IF u = "u1" THEN "admin" ELSE "user", isActive |-> TRUE]]

\* values of req.user
UndefinedUser == [role |-> "none", id |-> "undefined"]
NullUser == [role |-> "none", id |-> "null"]
isResolved(u) == u.id \in UserIds

\* the part of a header after 'Bearer ', as jsonwebtoken sees it
NoToken == [id |-> "null", kind |-> "none"]

\* req.headers.authorization
NoHeader == [scheme |-> "none", token |-> NoToken]
validHeader(u) == [scheme |-> "Bearer", token |-> [id |-> u, kind |-> "valid"]]

\* authorization.startsWith('Bearer') ? authorization.split(' ')[1] : undefined
bearerToken(h) == IF h.scheme = "Bearer" THEN h.token ELSE NoToken

\* jwt.verify(token, secret): the decoded payload, or a throw
jwtVerify(t) == [id |-> t.id, ok |-> t.kind = "valid"]

\* User.findById(id): the document, or null
findUserById(id) ==
    IF users[id] = NoUser THEN NullUser ELSE [role |-> users[id].role, id |-> id]

Unauthorized == [status |-> 401, next |-> 0, user |-> UndefinedUser]

\* protect that lets a failed verification through without an identity
protectLenient(h) ==
    LET token == bearerToken(h)
    IN  IF token.kind = "none" THEN Unauthorized
        ELSE LET decoded == jwtVerify(token)
             IN  IF ~decoded.ok THEN [status |-> 0, next |-> 1, user |-> NullUser]
                 ELSE [status |-> 0, next |-> 1, user |-> findUserById(decoded.id)]

\* exports.protect: status 0 means no response was sent
protect(h) ==
    LET token == bearerToken(h)
    IN  IF token.kind = "none" THEN Unauthorized
        ELSE LET decoded == jwtVerify(token)
             IN  IF ~decoded.ok THEN Unauthorized
                 ELSE [status |-> 0, next |-> 1, user |-> findUserById(decoded.id)]

\* authorize that checks only that an identity is attached
authorizeAnyRole(roles, user) ==
    IF ~isResolved(user) THEN [status |-> 403, next |-> 0]
    ELSE [status |-> 0, next |-> 1]

\* exports.authorize(...roles)
authorize(roles, user) ==
    IF ~isResolved(user) THEN [status |-> 403, next |-> 0]
    ELSE IF user.role \notin roles THEN [status |-> 403, next |-> 0]
    ELSE [status |-> 0, next |-> 1]

\* optionalAuth that answers 401 on a failed verification
optionalAuthStrict(h) ==
    LET token == bearerToken(h)
    IN  IF token.kind = "none" THEN [status |-> 0, next |-> 1, user |-> UndefinedUser]
        ELSE LET decoded == jwtVerify(token)
             IN  IF ~decoded.ok THEN Unauthorized
                 ELSE [status |-> 0, next |-> 1, user |-> findUserById(decoded.id)]

\* exports.optionalAuth
optionalAuth(h) ==
    LET token == bearerToken(h)
    IN  IF token.kind = "none" THEN [status |-> 0, next |-> 1, user |-> UndefinedUser]
        ELSE LET decoded == jwtVerify(token)
             IN  IF ~decoded.ok THEN [status |-> 0, next |-> 1, user |-> NullUser]
                 ELSE [status |-> 0, next |-> 1, user |-> findUserById(decoded.id)]

(***************************************************************************)
(* Upload intake (middleware/upload.js) and the final error handler.       *)
(***************************************************************************)
\* A file part is "image" (an image of at most 5 MiB), "notImage" (its declared
\* content type does not start with image/) or "tooLarge" (an image of more
\* than 5 MiB).  A single-file request carries one of these or "none".
FileKinds == {"image", "notImage", "tooLarge"}

\* upload.array('images', 5)
UploadLimit == 5

\* multer on the file parts in order, maxCount files allowed for the field:
\* the first error, or "none".  A part beyond maxCount is LIMIT_UNEXPECTED_FILE.
RECURSIVE multerFrom(_, _, _)
multerFrom(files, i, maxCount) ==
    IF i > Len(files) THEN "none"
    ELSE IF i > maxCount THEN "LIMIT_UNEXPECTED_FILE"
    ELSE IF files[i] = "notImage" THEN "Not an image!"           \* fileFilter
    ELSE IF files[i] = "tooLarge" THEN "LIMIT_FILE_SIZE"         \* limits.fileSize
    ELSE multerFrom(files, i + 1, maxCount)

\* exports.uploadSingle = upload.single('image')
uploadSingle(file) == multerFrom(IF file = "none" THEN <<>> ELSE <<file>>, 1, 1)

\* exports.uploadMultiple = upload.array('images', 5)
uploadMultiple(files) == multerFrom(files, 1, UploadLimit)

UploadErrors == {"LIMIT_UNEXPECTED_FILE", "LIMIT_FILE_SIZE", "Not an image!"}

\* app.use((err, req, res, next) => ...) of server.js
errorHandler(err) ==
    IF err = "Not allowed by CORS"
    THEN [status |-> 403, message |-> err]
    ELSE [status |-> 500, message |-> "Something went wrong!"]

\* handleUploadError that answers every multer error itself
handleUploadErrorAll(err) ==
    [status |-> 400, message |-> "Upload failed"]

\* exports.handleUploadError; what it does not answer goes to next(err)
handleUploadError(err) ==
    IF err = "LIMIT_FILE_SIZE"
    THEN [status |-> 400, message |-> "File too large. Maximum size is 5MB."]
    ELSE IF err = "LIMIT_FILE_COUNT"
    THEN [status |-> 400, message |-> "Too many files. Maximum is 5 files."]
    ELSE IF err = "Not an image!"
    THEN [status |-> 400, message |-> "Not an image! Please upload an image."]
    ELSE errorHandler(err)

(***************************************************************************)
(* Requests and responses.                                                 *)
(***************************************************************************)
NoId == [n |-> 0, wf |-> FALSE]

\* the message of a failure response, by the res.status(...).json site
failureMessage(route, status, user, ran) ==
    IF status = 401 THEN "Not authorized to access this route"                  \* protect
    ELSE IF status = 403 /\ ran = {"protect", "authorize"}                       \* authorize
    THEN (IF isResolved(user) THEN "User role is not authorized to access this route"
          ELSE "User not found")
    ELSE IF ran \cap UploadErrors # {}
    THEN handleUploadError(CHOOSE e \in ran \cap UploadErrors : TRUE).message
    ELSE IF status = 409 THEN "A blog with this title already exists. Please use a unique title."
    ELSE IF route = "commentDelete"
    THEN (IF status = 400 THEN "Invalid blog or comment id"
          ELSE IF status = 404 THEN "Blog or comment not found"
          ELSE IF status = 403 THEN "Not authorized to delete this comment"
          ELSE "Server error")
    ELSE IF route \in {"blogCreate", "blogUpdate", "blogDelete", "blogLike", "blogComment",
                       "blogRead"}
    THEN (IF status = 404 THEN "Blog not found" ELSE "Server error")
    ELSE IF route \in {"jobCreate", "jobUpdate", "jobDelete", "jobToggle", "jobAdminAll"}
    THEN (IF status = 404 THEN "Job not found"
          ELSE IF status = 400 THEN "A job with this title already exists"
          ELSE IF route = "jobCreate" THEN "Failed to create job"
          ELSE IF route = "jobUpdate" THEN "Failed to update job"
          ELSE IF route = "jobDelete" THEN "Failed to delete job"
          ELSE IF route = "jobToggle" THEN "Failed to toggle job status"
          ELSE "Failed to fetch jobs")
    ELSE IF route \in {"assetPut", "assetDelete"}
    THEN (IF status = 400 THEN "url is required"
          ELSE IF route = "assetPut" THEN "Failed to save asset"
          ELSE "Failed to delete asset")
    ELSE (IF status = 400 THEN "Invalid filename"                                \* media
          ELSE IF status = 404 THEN "File not found"
          ELSE "Failed to delete media")

\* the JSON body sent with the status: its status field, the names of its
\* fields and its message
responseBody(route, status, user, ran) ==
    IF status < 400
    THEN [status |-> "success", message |-> "", fields |-> {"status", "data"}]
    ELSE IF "validationResult" \in ran            \* { status, errors: errors.array() }
    THEN [status |-> "error", message |-> "", fields |-> {"status", "errors"}]
    ELSE [status |-> "error",
          message |-> failureMessage(route, status, user, ran),
          fields |-> {"status", "message"} \cup (IF status = 409 THEN {"keyValue"} ELSE {})]

\* the response to a request, as the next value of last
response(route, h, status, user, ran, authNext, id, sub) ==
    [id |-> id, status |-> status, user |-> user, route |-> route, ran |-> ran,
     authNext |-> authNext, sub |-> sub, seq |-> 1 - last.seq, hdr |-> h,
     body |-> responseBody(route, status, user, ran)]

\* route chains: protect alone, and protect followed by authorize('admin')
protectChain(h) ==
    LET p == protect(h)
    IN  [status |-> p.status, user |-> p.user,
         ran |-> IF p.next > 0 THEN {"protect", "handler"} ELSE {"protect"},
         authNext |-> p.next]

adminChain(h) ==
    LET p == protect(h)
        a == authorize({"admin"}, p.user)
    IN  IF p.next = 0
        THEN [status |-> p.status, user |-> p.user, ran |-> {"protect"}, authNext |-> p.next]
        ELSE [status |-> a.status, user |-> p.user,
              ran |-> IF a.next > 0 THEN {"protect", "authorize", "handler"}
                      ELSE {"protect", "authorize"},
              authNext |-> p.next]

optionalChain(h) ==
    LET o == optionalAuth(h)
    IN  [status |-> o.status, user |-> o.user,
         ran |-> IF o.next > 0 THEN {"optionalAuth", "handler"} ELSE {"optionalAuth"},
         authNext |-> o.next]

NoResult == [op |-> "none", val |-> <<>>, prev |-> <<>>]

(***************************************************************************)
(* Initial state: empty collections, no request answered.                  *)
(***************************************************************************)
InitStores ==
    /\ blogs = {}
    /\ jobs = {}
    /\ assets = {}
    /\ uploads = {}
    /\ nextId = 1
    /\ clock = 0
    /\ conns = [c \in Conns |->
                    [title |-> <<>>, status |-> 0, user |-> UndefinedUser, hdr |-> NoHeader,
                     pc |-> "idle", publish |-> FALSE]]
    /\ last = [id |-> NoId, status |-> 0, user |-> UndefinedUser, route |-> "none", ran |-> {},
               authNext |-> 0, sub |-> NoId, seq |-> 0, hdr |-> NoHeader,
               body |-> [status |-> "none", message |-> "", fields |-> {}]]

\* the server after start, every account present
InitServer == InitStores /\ users = InitUsers /\ fnIn = <<>> /\ fnOut = NoResult

(***************************************************************************)
(* Slug derivation as a function of the title.                             *)
(***************************************************************************)
DeriveSlug ==
    /\ fnOut.op = "none"
    /\ fnOut' = [op |-> "blogSlug", val |-> normalize(fnIn), prev |-> fnIn]
    /\ UNCHANGED <<users, stores, nextId, clock, conns, last, fnIn>>

DeriveJobBaseSlug ==
    /\ fnOut.op = "none"
    /\ fnOut' = [op |-> "jobBaseSlug", val |-> jobBaseSlug(fnIn), prev |-> fnIn]
    /\ UNCHANGED <<users, stores, nextId, clock, conns, last, fnIn>>

\* the derived slug used as a title again
DeriveAgain ==
    /\ fnOut.op \in {"blogSlug", "jobBaseSlug"}
    /\ fnOut' = [op |-> "again", val |-> normalize(fnOut.val), prev |-> fnOut.val]
    /\ UNCHANGED <<users, stores, nextId, clock, conns, last, fnIn>>

InitSlug ==
    /\ InitStores
    /\ users = InitUsers
    \* characters of the enumerated titles: a lower-case letter, an upper-case
    \* letter, a digit, whitespace, the hyphen and a character the chain removes
    /\ fnIn \in SeqsUpTo({"a", "Z", "7", " ", "-", "!"}, MaxTitleLen)
    /\ fnOut = NoResult

NextSlug == DeriveSlug \/ DeriveJobBaseSlug \/ DeriveAgain

SpecSlug == InitSlug /\ [][NextSlug]_vars

\* C9: a derived slug holds only a-z, 0-9 and '-', has no two adjacent hyphens,
\* and neither starts nor ends with a hyphen.
C9_SlugShape ==
    fnOut.op \in {"blogSlug", "jobBaseSlug"} =>
        LET s == fnOut.val
        IN  /\ \A i \in 1..Len(s) : s[i] \in LowerChars \cup DigitChars \cup {HyphenChar}
            /\ \A i \in 1..(Len(s) - 1) : ~(s[i] = HyphenChar /\ s[i + 1] = HyphenChar)
            /\ s # <<>> => (s[1] # HyphenChar /\ s[Len(s)] # HyphenChar)

\* a title with upper case, punctuation, a space and a hyphen run was normalised
C9_Witness ==
    /\ fnOut.op = "blogSlug"
    /\ fnIn = <<"Z", "!", " ", "-">>
    /\ fnOut.val = <<"z">>

\* C10: normalising an already normalised slug returns it unchanged.
C10_Idempotent ==
    fnOut.op = "again" => fnOut.val = fnOut.prev

\* a non-empty slug with an inner hyphen was normalised a second time
C10_Witness ==
    /\ fnOut.op = "again"
    /\ fnIn = <<" ", "a", " ", "7">>
    /\ fnOut.val = <<"a", "-", "7">>

(***************************************************************************)
(* Blog model (models/Blog.js).                                            *)
(***************************************************************************)
TitleMin == 5
TitleMax == 100

\* String.prototype.trim, also the validator's .trim() sanitizer
trim(s) == dropTrailingIn(dropWhileIn(s, SpaceChars), SpaceChars)

\* titles a client may send
TitleZaba7  == <<"Z", "a", "b", "a", "7">>
TitleAbJo   == <<"a", "b", " ", " ", "j", "o">>
TitlePool ==
    {TitleZaba7, <<"z", "a", "b", "a", " ", "7", "!">>, <<"z", "a", "b", "a", "-", "7">>,
     TitleAbJo, <<"!", "!", "!", "!", "!">>,
     <<"!", " ", "-", " ", "!">>, <<" ", "a", "b", " ", " ">>}

\* new Blog(blogData), before the hooks run
newBlog(id, title, author, publish) ==
    [title |-> trim(title), id |-> id,
     status |-> IF publish THEN "published" ELSE "draft",
     author |-> author, slug |-> <<>>, views |-> 0, likes |-> <<>>, comments |-> <<>>]

\* blogSchema.pre('validate'): derive the slug from the title
preValidate(doc, titleModified) ==
    IF doc.title # <<>> /\ (titleModified \/ doc.slug = <<>>)
    THEN [doc EXCEPT !.slug = normalize(doc.title)]
    ELSE doc

\* schema validation: title required with maxlength 100, slug required
schemaValid(doc) ==
    /\ doc.title # <<>>
    /\ Len(doc.title) <= TitleMax
    /\ doc.slug # <<>>

\* the unique index on slug
slugTaken(doc) == \E b \in blogs : b.id # doc.id /\ b.slug = doc.slug

\* document.save() / Blog.create: hooks, validation, then the write
saveBlog(doc, titleModified) ==
    LET d == preValidate(doc, titleModified)
    IN  IF ~schemaValid(d) THEN [err |-> "ValidationError", doc |-> d]
        ELSE IF slugTaken(d) THEN [err |-> "DuplicateKey", doc |-> d]
        ELSE [err |-> "none", doc |-> d]

findBlogById(n) == {b \in blogs : b.id = n}

(***************************************************************************)
(* POST /api/blog (routes/blog.js).                                        *)
(***************************************************************************)

\* express-validator chain of the create route; fieldsOk stands for content,
\* excerpt, category, tags and status
createErrors(title, fieldsOk) ==
    \/ ~(Len(trim(title)) >= TitleMin /\ Len(trim(title)) <= TitleMax)
    \/ ~fieldsOk

\* errors a store operation may fail with although the document is valid and
\* unique: a server error other than duplicate key, and a lost connection
StoreFaults == {"MongoServerError", "MongoNetworkError"}

\* catch block of create and update; a duplicate key is a MongoServerError
\* with code 11000:  error.code === 11000 || error.name === 'MongoServerError'
catchStatus(err) == IF err = "DuplicateKey" \/ err = "MongoServerError" THEN 409 ELSE 500

\* the error the request met, as part of what ran
errRan(err) == IF err = "none" THEN {} ELSE {err}

\* a write that reaches the store: the store may fail it with fault
storeWrite(out, fault) ==
    IF out.err = "ValidationError" \/ fault = "none" THEN out
    ELSE [err |-> fault, doc |-> out.doc]

doneConn(h, user, title, status) ==
    [title |-> title, status |-> status, user |-> user, hdr |-> h, pc |-> "done",
     publish |-> FALSE]

\* middleware and validation of a create request on connection c
BlogCreateBegin(c, h, title, fieldsOk, publish, file) ==
    /\ conns[c].pc \in {"idle", "done"}
    /\ LET g == adminChain(h)
       IN  IF g.status # 0
           THEN /\ conns' = [conns EXCEPT ![c] = doneConn(h, g.user, title, g.status)]
                /\ last' = response("blogCreate", h, g.status, g.user, g.ran, g.authNext,
                                    NoId, NoId)
                /\ UNCHANGED uploads
           ELSE IF uploadSingle(file) # "none"
           THEN /\ conns' = [conns EXCEPT ![c] =
                               doneConn(h, g.user, title,
                                        handleUploadError(uploadSingle(file)).status)]
                /\ last' = response("blogCreate", h,
                                    handleUploadError(uploadSingle(file)).status, g.user,
                                    (g.ran \ {"handler"}) \cup {"upload", uploadSingle(file)},
                                    g.authNext, NoId, NoId)
                /\ UNCHANGED uploads
           ELSE /\ IF file = "image"
                   THEN \E f \in FileNames \ uploads : uploads' = uploads \cup {f}
                   ELSE UNCHANGED uploads
                /\ IF createErrors(title, fieldsOk)
                   THEN /\ conns' = [conns EXCEPT ![c] = doneConn(h, g.user, title, 400)]
                        /\ last' = response("blogCreate", h, 400, g.user,
                                            g.ran \cup {"upload", "validationResult"},
                                            g.authNext, NoId, NoId)
                   ELSE /\ conns' = [conns EXCEPT ![c] =
                                       [title |-> trim(title), status |-> 0, user |-> g.user,
                                        hdr |-> h, pc |-> "create",
                                        publish |-> publish]]
                        /\ UNCHANGED last
    /\ UNCHANGED <<users, blogs, jobs, assets, nextId, clock, fnIn, fnOut>>

\* Blog.create and the response of the create request on connection c
BlogCreateStore(c, fault) ==
    /\ conns[c].pc = "create"
    /\ LET r   == conns[c]
           out == storeWrite(saveBlog(newBlog(nextId, r.title, r.user.id, r.publish), TRUE),
                             fault)
           st  == IF out.err = "none" THEN 201 ELSE catchStatus(out.err)
       IN  /\ out.err = "none" => nextId <= MaxIds
           /\ IF out.err = "none"
              THEN blogs' = blogs \cup {out.doc} /\ nextId' = nextId + 1
              ELSE UNCHANGED <<blogs, nextId>>
           /\ conns' = [conns EXCEPT ![c] = doneConn(r.hdr, r.user, r.title, st)]
           /\ last' = response("blogCreate", r.hdr, st, r.user,
                               {"protect", "authorize", "upload", "handler"} \cup errRan(out.err), 1,
                               [n |-> nextId, wf |-> TRUE], NoId)
    /\ UNCHANGED <<users, jobs, assets, uploads, clock, fnIn, fnOut>>

(***************************************************************************)
(* PUT /api/blog/:id and DELETE /api/blog/:id.                             *)
(***************************************************************************)
\* path parameters: an ObjectId string decoding to n, or a malformed string
IdInputs == {NoId} \cup {[n |-> k, wf |-> TRUE] : k \in 1..MaxIds}
FirstId == [n |-> 1, wf |-> TRUE]

\* req.body of an update: the fields in `set` are present
updateBody(set, title, slug, author, fieldsOk) ==
    [title |-> title, author |-> author, slug |-> slug, fieldsOk |-> fieldsOk, set |-> set]

\* Blog.findByIdAndUpdate(id, updateData, {new: true, runValidators: true}):
\* d is the document after $set of the body's fields; query updates run no
\* document hook
findByIdAndUpdate(b, body) ==
    LET d == [b EXCEPT !.title  = IF "title" \in body.set THEN trim(body.title) ELSE b.title,
                       !.slug   = IF "slug" \in body.set THEN body.slug ELSE b.slug,
                       !.author = IF "author" \in body.set THEN body.author ELSE b.author]
    IN  IF ~schemaValid(d) THEN [err |-> "ValidationError", doc |-> b]
        ELSE IF slugTaken(d) THEN [err |-> "DuplicateKey", doc |-> b]
        ELSE [err |-> "none", doc |-> d]

BlogUpdate(h, id, body, file, fault) ==
    /\ LET g == adminChain(h)
           found == findBlogById(id.n)
       IN  IF g.status # 0
           THEN /\ last' = response("blogUpdate", h, g.status, g.user, g.ran, g.authNext, id, NoId)
                /\ UNCHANGED <<blogs, uploads>>
           ELSE IF uploadSingle(file) # "none"
           THEN /\ last' = response("blogUpdate", h,
                                    handleUploadError(uploadSingle(file)).status, g.user,
                                    (g.ran \ {"handler"}) \cup {"upload", uploadSingle(file)},
                                    g.authNext, id, NoId)
                /\ UNCHANGED <<blogs, uploads>>
           ELSE /\ IF file = "image"
                   THEN \E f \in FileNames \ uploads : uploads' = uploads \cup {f}
                   ELSE UNCHANGED uploads
                /\ LET ran == g.ran \cup {"upload"}
                       \* express-validator chain of the update route: every field
                       \* optional
                       updateErrors ==
                           \/ /\ "title" \in body.set
                              /\ ~(/\ Len(trim(body.title)) >= TitleMin
                                   /\ Len(trim(body.title)) <= TitleMax)
                           \/ ~body.fieldsOk
                   IN  IF updateErrors
                       THEN /\ last' = response("blogUpdate", h, 400, g.user,
                                                ran \cup {"validationResult"}, g.authNext,
                                                id, NoId)
                            /\ UNCHANGED blogs
                       ELSE IF ~id.wf        \* findById throws CastError
                       THEN /\ last' = response("blogUpdate", h, catchStatus("CastError"), g.user,
                                                ran, g.authNext, id, NoId)
                            /\ UNCHANGED blogs
                       ELSE IF found = {}
                       THEN /\ last' = response("blogUpdate", h, 404, g.user, ran, g.authNext, id, NoId)
                            /\ UNCHANGED blogs
                       ELSE \E b \in found :
                              LET out == storeWrite(findByIdAndUpdate(b, body), fault)
                              IN  /\ blogs' = IF out.err = "none"
                                              THEN (blogs \ {b}) \cup {out.doc} ELSE blogs
                                  /\ last' = response("blogUpdate", h,
                                                      IF out.err = "none" THEN 200
                                                      ELSE catchStatus(out.err),
                                                      g.user, ran \cup errRan(out.err),
                                                      g.authNext, id, NoId)
    /\ UNCHANGED <<users, jobs, assets, nextId, clock, conns, fnIn, fnOut>>

BlogDelete(h, id) ==
    /\ LET g == adminChain(h)
           found == findBlogById(id.n)
       IN  IF g.status # 0
           THEN /\ last' = response("blogDelete", h, g.status, g.user, g.ran, g.authNext, id, NoId)
                /\ UNCHANGED blogs
           ELSE IF ~id.wf           \* findById throws CastError
           THEN /\ last' = response("blogDelete", h, 500, g.user, g.ran, g.authNext, id, NoId)
                /\ UNCHANGED blogs
           ELSE IF found = {}
           THEN /\ last' = response("blogDelete", h, 404, g.user, g.ran, g.authNext, id, NoId)
                /\ UNCHANGED blogs
           ELSE /\ blogs' = blogs \ found
                /\ last' = response("blogDelete", h, 200, g.user, g.ran, g.authNext, id, NoId)
    /\ UNCHANGED <<users, jobs, assets, uploads, nextId, clock, conns, fnIn, fnOut>>

(***************************************************************************)
(* POST /:id/like, POST /:id/comment, GET /:slug.                          *)
(***************************************************************************)
indexOf(seq, x) ==
    IF \E i \in 1..Len(seq) : seq[i] = x
    THEN CHOOSE i \in 1..Len(seq) : seq[i] = x /\ \A j \in 1..(i - 1) : seq[j] # x
    ELSE 0

removeAt(seq, i) == SubSeq(seq, 1, i - 1) \o SubSeq(seq, i + 1, Len(seq))

\* the like toggle of one request running alone
BlogLike(h, id) ==
    /\ LET g == protectChain(h)
           \* likes.splice(likeIndex, 1) or likes.push(id)
           toggleLike(b, uid) ==
               LET likeIndex == indexOf(b.likes, uid)
               IN  IF likeIndex > 0 THEN [b EXCEPT !.likes = removeAt(b.likes, likeIndex)]
                   ELSE [b EXCEPT !.likes = Append(b.likes, uid)]
           found == findBlogById(id.n)
       IN  IF g.status # 0
           THEN /\ last' = response("blogLike", h, g.status, g.user, g.ran, g.authNext, id, NoId)
                /\ UNCHANGED blogs
           ELSE IF ~id.wf                    \* findById throws CastError
           THEN /\ last' = response("blogLike", h, 500, g.user, g.ran, g.authNext, id, NoId)
                /\ UNCHANGED blogs
           ELSE IF found = {}
           THEN /\ last' = response("blogLike", h, 404, g.user, g.ran, g.authNext, id, NoId)
                /\ UNCHANGED blogs
           ELSE IF ~isResolved(g.user)       \* req.user.id throws TypeError
           THEN /\ last' = response("blogLike", h, 500, g.user, g.ran, g.authNext, id, NoId)
                /\ UNCHANGED blogs
           ELSE \E b \in found :
                  LET out == saveBlog(toggleLike(b, g.user.id), FALSE)
                  IN  /\ blogs' = IF out.err = "none" THEN (blogs \ {b}) \cup {out.doc} ELSE blogs
                      /\ last' = response("blogLike", h, IF out.err = "none" THEN 200 ELSE 500,
                                          g.user, g.ran, g.authNext, id, NoId)
    /\ UNCHANGED <<users, jobs, assets, uploads, nextId, clock, conns, fnIn, fnOut>>

\* The like toggle as two steps of one request on connection c, so that the
\* requests of several connections interleave between findById and save.
\* LikeFind is the handler up to the await of blog.save(): the document as
\* read stays in conns[c].doc.
LikeFind(c, h, id) ==
    /\ conns[c].pc \in {"idle", "done"}
    /\ LET g == protectChain(h)
           found == findBlogById(id.n)
           st == IF g.status # 0 THEN g.status
                 ELSE IF ~id.wf THEN 500
                 ELSE IF found = {} THEN 404
                 ELSE IF ~isResolved(g.user) THEN 500
                 ELSE 0
       IN  IF st # 0
           THEN /\ last' = response("blogLike", h, st, g.user, g.ran, g.authNext, id, NoId)
                /\ conns' = [conns EXCEPT ![c] = doneConn(h, g.user, <<>>, st)]
           ELSE /\ \E b \in found :
                     conns' = [conns EXCEPT ![c] =
                                  [title |-> <<>>, status |-> 0, user |-> g.user, hdr |-> h,
                                   pc |-> "like", publish |-> FALSE, doc |-> b]]
                /\ UNCHANGED last
    /\ UNCHANGED <<users, stores, nextId, clock, fnIn, fnOut>>

\* blog.save() of the toggled document and the response.  Mongoose writes the
\* change of the array, not the document: likes.push(id) is sent as $push,
\* which appends to the stored array whatever it holds by now;
\* likes.splice(i, 1) is sent as $set of the whole array under the condition
\* that the version is the one read, and fails with VersionError otherwise
\* (the version changes with every write of likes).
LikeSave(c) ==
    /\ conns[c].pc = "like"
    /\ LET r == conns[c]
           likeIndex == indexOf(r.doc.likes, r.user.id)
           stored == findBlogById(r.doc.id)
           err == IF stored = {} THEN "DocumentNotFoundError"
                  ELSE IF likeIndex > 0 /\ (\E b \in stored : b.likes # r.doc.likes)
                  THEN "VersionError"
                  ELSE "none"
           st == IF err = "none" THEN 200 ELSE 500
       IN  /\ IF err # "none"
              THEN UNCHANGED blogs
              ELSE \E b \in stored :
                     /\ likeIndex = 0 => Len(b.likes) < MaxLikes
                     /\ blogs' = (blogs \ {b}) \cup
                                    {IF likeIndex > 0
                                     THEN [b EXCEPT !.likes = removeAt(b.likes, likeIndex)]
                                     ELSE [b EXCEPT !.likes = Append(b.likes, r.user.id)]}
           /\ last' = response("blogLike", r.hdr, st, r.user,
                               {"protect", "handler"} \cup errRan(err), 1,
                               [n |-> r.doc.id, wf |-> TRUE], NoId)
           /\ conns' = [conns EXCEPT ![c] = doneConn(r.hdr, r.user, <<>>, st)]
    /\ UNCHANGED <<users, jobs, assets, uploads, nextId, clock, fnIn, fnOut>>

BlogComment(h, id, commentOk) ==
    /\ LET g == protectChain(h)
           found == findBlogById(id.n)
       IN  IF g.status # 0
           THEN /\ last' = response("blogComment", h, g.status, g.user, g.ran, g.authNext, id, NoId)
                /\ UNCHANGED <<blogs, nextId>>
           ELSE IF ~commentOk
           THEN /\ last' = response("blogComment", h, 400, g.user,
                                    g.ran \cup {"validationResult"}, g.authNext, id, NoId)
                /\ UNCHANGED <<blogs, nextId>>
           ELSE IF ~id.wf                    \* findById throws CastError
           THEN /\ last' = response("blogComment", h, 500, g.user, g.ran, g.authNext, id, NoId)
                /\ UNCHANGED <<blogs, nextId>>
           ELSE IF found = {}
           THEN /\ last' = response("blogComment", h, 404, g.user, g.ran, g.authNext, id, NoId)
                /\ UNCHANGED <<blogs, nextId>>
           ELSE IF ~isResolved(g.user)       \* req.user.id throws TypeError
           THEN /\ last' = response("blogComment", h, 500, g.user, g.ran, g.authNext, id, NoId)
                /\ UNCHANGED <<blogs, nextId>>
           ELSE \E b \in found :
                  LET c   == [id |-> nextId, user |-> g.user.id]
                      out == saveBlog([b EXCEPT !.comments = Append(b.comments, c)], FALSE)
                  IN  /\ nextId <= MaxIds
                      /\ IF out.err = "none"
                         THEN blogs' = (blogs \ {b}) \cup {out.doc} /\ nextId' = nextId + 1
                         ELSE UNCHANGED <<blogs, nextId>>
                      /\ last' = response("blogComment", h, IF out.err = "none" THEN 200 ELSE 500,
                                          g.user, g.ran, g.authNext, id,
                                          [n |-> nextId, wf |-> TRUE])
    /\ UNCHANGED <<users, jobs, assets, uploads, clock, conns, fnIn, fnOut>>

\* the status condition of every public query: { status: 'published' }
anyStatus(b) == b.status \in {"draft", "published", "archived"}
isPublished(b) == b.status = "published"

BlogRead(h, slug) ==
    /\ LET g == optionalChain(h)
           found == {b \in blogs : b.slug = slug /\ isPublished(b)}
       IN  IF g.status # 0
           THEN /\ last' = response("blogRead", h, g.status, g.user, g.ran, g.authNext, NoId, NoId)
                /\ UNCHANGED blogs
           ELSE IF found = {}
           THEN /\ last' = response("blogRead", h, 404, g.user, g.ran, g.authNext, NoId, NoId)
                /\ UNCHANGED blogs
           ELSE \E b \in found :
                  LET out == saveBlog([b EXCEPT !.views = b.views + 1], FALSE)
                  IN  /\ b.views < MaxViews
                      /\ blogs' = IF out.err = "none" THEN (blogs \ {b}) \cup {out.doc} ELSE blogs
                      /\ last' = response("blogRead", h, IF out.err = "none" THEN 200 ELSE 500,
                                          g.user, g.ran, g.authNext, [n |-> b.id, wf |-> TRUE], NoId)
    /\ UNCHANGED <<users, jobs, assets, uploads, nextId, clock, conns, fnIn, fnOut>>

\* The read by slug as two steps of one request on connection c.  ViewFind is
\* the handler up to the await of blog.save().
ViewFind(c, h, slug) ==
    /\ conns[c].pc \in {"idle", "done"}
    /\ LET g == optionalChain(h)
           found == {b \in blogs : b.slug = slug /\ isPublished(b)}
           st == IF g.status # 0 THEN g.status ELSE IF found = {} THEN 404 ELSE 0
       IN  IF st # 0
           THEN /\ last' = response("blogRead", h, st, g.user, g.ran, g.authNext, NoId, NoId)
                /\ conns' = [conns EXCEPT ![c] = doneConn(h, g.user, <<>>, st)]
           ELSE /\ \E b \in found :
                     conns' = [conns EXCEPT ![c] =
                                  [title |-> <<>>, status |-> 0, user |-> g.user, hdr |-> h,
                                   pc |-> "view", publish |-> FALSE, doc |-> b]]
                /\ UNCHANGED last
    /\ UNCHANGED <<users, stores, nextId, clock, fnIn, fnOut>>

\* blog.views += 1; await blog.save(): the write sets views to the value read
\* plus one
ViewSave(c) ==
    /\ conns[c].pc = "view"
    /\ LET r == conns[c]
           stored == findBlogById(r.doc.id)
           err == IF stored = {} THEN "DocumentNotFoundError" ELSE "none"
           st == IF err = "none" THEN 200 ELSE 500
       IN  /\ r.doc.views < MaxViews
           /\ blogs' = {IF b.id = r.doc.id THEN [b EXCEPT !.views = r.doc.views + 1] ELSE b :
                           b \in blogs}
           /\ last' = response("blogRead", r.hdr, st, r.user,
                               {"optionalAuth", "handler"} \cup errRan(err), 1,
                               [n |-> r.doc.id, wf |-> TRUE], NoId)
           /\ conns' = [conns EXCEPT ![c] = doneConn(r.hdr, r.user, <<>>, st)]
    /\ UNCHANGED <<users, jobs, assets, uploads, nextId, clock, fnIn, fnOut>>

\* GET /api/blog: the published blogs of one page.  author is the author
\* filter ("none" when absent); shown stands for the documents that the
\* category filter, the search text and the page window select.
BlogList(h, author, shown) ==
    /\ LET g == optionalChain(h)
       IN  IF g.status # 0
           THEN /\ last' = response("blogList", h, g.status, g.user, g.ran, g.authNext, NoId, NoId)
                /\ fnOut' = NoResult
           ELSE /\ last' = response("blogList", h, 200, g.user, g.ran, g.authNext, NoId, NoId)
                /\ fnOut' = [op |-> "blogList",
                             val |-> {b \in blogs : /\ isPublished(b)
                                                    /\ author \in {"none", b.author}
                                                    /\ b.id \in shown},
                             prev |-> author]
    /\ UNCHANGED <<users, stores, nextId, clock, conns, fnIn>>

\* GET /api/blog/featured: flagged stands for the documents whose isFeatured
\* flag is set
BlogFeatured(flagged) ==
    /\ last' = response("blogFeatured", NoHeader, 200, UndefinedUser, {"handler"}, 0, NoId, NoId)
    /\ fnOut' = [op |-> "blogFeatured",
                 val |-> {b \in blogs : isPublished(b) /\ b.id \in flagged},
                 prev |-> flagged]
    /\ UNCHANGED <<users, stores, nextId, clock, conns, fnIn>>

(***************************************************************************)
(* DELETE /api/blog/:id/comment/:commentId.                                *)
(***************************************************************************)
\* isOwner || isAdmin || isBlogAuthor
mayDeleteCommentNoBlogAuthor(comment, blog, user) ==
    comment.user = user.id \/ user.role = "admin"
mayDeleteComment(comment, blog, user) ==
    LET isOwner      == comment.user = user.id
        isAdmin      == user.role = "admin"
        isBlogAuthor == blog.author = user.id
    IN  isOwner \/ isAdmin \/ isBlogAuthor

commentsWithId(b, n) == {i \in 1..Len(b.comments) : b.comments[i].id = n}

\* Blog.findOne({_id, 'comments._id'}): the blogs holding the comment
findBlogWithComment(id, sub) ==
    {b \in blogs : b.id = id.n /\ commentsWithId(b, sub.n) # {}}

\* the checks of the handler in order; status 200 means the $pull is issued
deleteCommentAuthFirst(user, id, sub) ==
    LET found == findBlogWithComment(id, sub)
    IN  IF ~id.wf \/ ~sub.wf THEN [status |-> 400, ran |-> {}]
        ELSE IF \A b \in found : \A i \in commentsWithId(b, sub.n) :
                    ~mayDeleteComment(b.comments[i], b, user)
        THEN [status |-> 403, ran |-> {"Blog.findOne"}]
        ELSE [status |-> 200, ran |-> {"Blog.findOne", "Blog.updateOne"}]
deleteCommentChecks(user, id, sub) ==
    LET found == findBlogWithComment(id, sub)
    IN  IF ~id.wf \/ ~sub.wf THEN [status |-> 400, ran |-> {}]
        ELSE IF found = {} THEN [status |-> 404, ran |-> {"Blog.findOne"}]
        ELSE IF ~isResolved(user)            \* req.user.id throws TypeError
        THEN [status |-> 500, ran |-> {"Blog.findOne"}]
        ELSE LET b == CHOOSE x \in found : TRUE
                 c == b.comments[CHOOSE i \in commentsWithId(b, sub.n) : TRUE]
                 \* the local flags of the handler that hold for this caller
                 authFlags ==
                     (IF c.user = user.id THEN {"isOwner"} ELSE {})
                     \cup (IF user.role = "admin" THEN {"isAdmin"} ELSE {})
                     \cup (IF b.author = user.id THEN {"isBlogAuthor"} ELSE {})
             IN  IF ~mayDeleteComment(c, b, user)
                 THEN [status |-> 403, ran |-> {"Blog.findOne"}]
                 ELSE [status |-> 200,
                       ran |-> {"Blog.findOne", "Blog.updateOne"} \cup authFlags]

BlogDeleteComment(h, id, sub) ==
    /\ LET g == protectChain(h)
       IN  IF g.status # 0
           THEN /\ last' = response("commentDelete", h, g.status, g.user, g.ran, g.authNext, id, sub)
                /\ UNCHANGED blogs
           ELSE LET r == deleteCommentChecks(g.user, id, sub)
                    \* $pull: { comments: { _id } }
                    pullComment(b, n) ==
                        [b EXCEPT !.comments = SelectSeq(b.comments, LAMBDA c : c.id # n)]
                IN  /\ last' = response("commentDelete", h, r.status, g.user,
                                        g.ran \cup r.ran, g.authNext, id, sub)
                    /\ blogs' = IF r.status = 200
                                THEN {IF b.id = id.n THEN pullComment(b, sub.n) ELSE b : b \in blogs}
                                ELSE blogs
    /\ UNCHANGED <<users, jobs, assets, uploads, nextId, clock, conns, fnIn, fnOut>>

(***************************************************************************)
(* Job model and routes (models/job.js, routes/job.js).                    *)
(***************************************************************************)
\* a title a client may send
JobTitle == <<"j", "o", "b", " ", "7">>

\* validateJob; fieldsOk stands for the fields other than the title
jobCreateErrors(title, fieldsOk) ==
    \/ ~(Len(trim(title)) >= 3 /\ Len(trim(title)) <= TitleMax)       \* { min: 3, max: 100 }
    \/ ~fieldsOk

\* jobSchema.pre('save'): `${baseSlug}-${Date.now()}`
jobPreSave(doc, titleModified) ==
    IF ~doc.hasSlug \/ titleModified
    THEN [doc EXCEPT !.hasSlug = TRUE, !.slug = [base |-> jobBaseSlug(doc.title), ts |-> clock]]
    ELSE doc

NoJobSlug == [base |-> <<>>, ts |-> 0]

\* applicationDeadline: absent, or a point in time
NoDeadline == [t |-> 0, set |-> FALSE]

newJob(id, title, deadline) ==
    [title |-> trim(title), isActive |-> TRUE, id |-> id, slug |-> NoJobSlug,
     views |-> 0, hasSlug |-> FALSE, deadline |-> deadline, currency |-> "INR"]

\* the unique index on Job.slug
jobSlugTaken(doc) == \E j \in jobs : j.id # doc.id /\ j.hasSlug /\ doc.hasSlug /\ j.slug = doc.slug

\* time passes between two store operations
Tick ==
    /\ clock < MaxClock
    /\ clock' = clock + 1
    /\ UNCHANGED <<users, stores, nextId, conns, last, fnIn, fnOut>>

JobCreate(h, title, deadline, fieldsOk) ==
    /\ LET g == adminChain(h)
           d == jobPreSave(newJob(nextId, title, deadline), TRUE)
       IN  IF g.status # 0
           THEN /\ last' = response("jobCreate", h, g.status, g.user, g.ran, g.authNext, NoId, NoId)
                /\ UNCHANGED <<jobs, nextId>>
           ELSE IF jobCreateErrors(title, fieldsOk)
           THEN /\ last' = response("jobCreate", h, 400, g.user,
                                    g.ran \cup {"validationResult"}, g.authNext, NoId, NoId)
                /\ UNCHANGED <<jobs, nextId>>
           ELSE IF jobSlugTaken(d)          \* error.code === 11000
           THEN /\ last' = response("jobCreate", h, 400, g.user,
                                    g.ran \cup errRan("DuplicateKey"), g.authNext, NoId, NoId)
                /\ UNCHANGED <<jobs, nextId>>
           ELSE /\ nextId <= MaxIds
                /\ jobs' = jobs \cup {d}
                /\ nextId' = nextId + 1
                /\ last' = response("jobCreate", h, 201, g.user, g.ran, g.authNext,
                                    [n |-> nextId, wf |-> TRUE], NoId)
    /\ UNCHANGED <<users, blogs, assets, uploads, clock, conns, fnIn, fnOut>>

\* req.body of a job update: the fields in `set` are present; the fields in
\* `invalid` carry a value that job create rejects (a salary bound that is not
\* a number, a period outside the enum, an applyLink that is no URL, an
\* applyEmail that is no address, a deadline that is no date)
jobBody(set, title, slug, fieldsOk, currency, invalid) ==
    [title |-> title, slug |-> slug, fieldsOk |-> fieldsOk, set |-> set,
     currency |-> currency, invalid |-> invalid]

\* the schema's casts and validators run by runValidators: Number and Date
\* casts, the enum of salary.period, the patterns of applyLink and applyEmail;
\* salary.currency has none
jobSchemaError(body) ==
    IF body.invalid \cap {"salary.min", "salary.max", "applicationDeadline"} # {}
    THEN "CastError"
    ELSE IF body.invalid \cap {"salary.period", "applyLink", "applyEmail"} # {}
    THEN "ValidationError"
    ELSE "none"

\* PUT /:id: Job.findByIdAndUpdate; the catch answers every error 500
JobUpdate(h, id, body) ==
    /\ LET g == adminChain(h)
           \* updateJobValidation: every field optional
           jobUpdateErrors ==
               \/ "title" \in body.set /\ jobCreateErrors(body.title, TRUE)
               \/ ~body.fieldsOk
           \* the document after $set of the body's fields; no document hook runs
           applyJobUpdate(j) ==
               [j EXCEPT !.title   = IF "title" \in body.set THEN trim(body.title)
                                     ELSE j.title,
                         !.hasSlug = IF "slug" \in body.set THEN TRUE ELSE j.hasSlug,
                         !.slug    = IF "slug" \in body.set THEN body.slug ELSE j.slug,
                         !.currency = IF "salary.currency" \in body.set THEN body.currency
                                      ELSE j.currency]
           found == {j \in jobs : j.id = id.n}
       IN  IF g.status # 0
           THEN /\ last' = response("jobUpdate", h, g.status, g.user, g.ran, g.authNext, id, NoId)
                /\ UNCHANGED jobs
           ELSE IF jobUpdateErrors
           THEN /\ last' = response("jobUpdate", h, 400, g.user,
                                    g.ran \cup {"validationResult"}, g.authNext, id, NoId)
                /\ UNCHANGED jobs
           ELSE IF ~id.wf                    \* CastError
           THEN /\ last' = response("jobUpdate", h, 500, g.user, g.ran, g.authNext, id, NoId)
                /\ UNCHANGED jobs
           ELSE IF jobSchemaError(body) # "none"
           THEN /\ last' = response("jobUpdate", h, 500, g.user,
                                    g.ran \cup errRan(jobSchemaError(body)), g.authNext, id, NoId)
                /\ UNCHANGED jobs
           ELSE IF found = {}
           THEN /\ last' = response("jobUpdate", h, 404, g.user, g.ran, g.authNext, id, NoId)
                /\ UNCHANGED jobs
           ELSE \E j \in found :
                  LET d == applyJobUpdate(j)
                  IN  IF jobSlugTaken(d)
                      THEN /\ last' = response("jobUpdate", h, 500, g.user,
                                               g.ran \cup errRan("DuplicateKey"), g.authNext,
                                               id, NoId)
                           /\ UNCHANGED jobs
                      ELSE /\ jobs' = (jobs \ {j}) \cup {d}
                           /\ last' = response("jobUpdate", h, 200, g.user, g.ran, g.authNext,
                                               id, NoId)
    /\ UNCHANGED <<users, blogs, assets, uploads, nextId, clock, conns, fnIn, fnOut>>

\* GET /:slug: findOne({ slug, isActive: true }), then the store's atomic
\* { $inc: { views: 1 } }; the response carries the job as read
JobRead(h, slug) ==
    /\ LET g == optionalChain(h)
           found == {j \in jobs : j.hasSlug /\ j.slug = slug /\ j.isActive}
       IN  IF g.status # 0
           THEN /\ last' = response("jobRead", h, g.status, g.user, g.ran, g.authNext, NoId, NoId)
                /\ UNCHANGED jobs
           ELSE IF found = {}
           THEN /\ last' = response("jobRead", h, 404, g.user, g.ran, g.authNext, NoId, NoId)
                /\ UNCHANGED jobs
           ELSE \E j \in found :
                  /\ j.views < MaxViews
                  /\ jobs' = (jobs \ {j}) \cup {[j EXCEPT !.views = j.views + 1]}
                  /\ last' = response("jobRead", h, 200, g.user, g.ran, g.authNext,
                                      [n |-> j.id, wf |-> TRUE], NoId)
    /\ UNCHANGED <<users, blogs, assets, uploads, nextId, clock, conns, fnIn, fnOut>>

JobDelete(h, id) ==
    /\ LET g == adminChain(h)
           found == {j \in jobs : j.id = id.n}
       IN  IF g.status # 0
           THEN /\ last' = response("jobDelete", h, g.status, g.user, g.ran, g.authNext, id, NoId)
                /\ UNCHANGED jobs
           ELSE IF ~id.wf                    \* CastError
           THEN /\ last' = response("jobDelete", h, 500, g.user, g.ran, g.authNext, id, NoId)
                /\ UNCHANGED jobs
           ELSE IF found = {}
           THEN /\ last' = response("jobDelete", h, 404, g.user, g.ran, g.authNext, id, NoId)
                /\ UNCHANGED jobs
           ELSE /\ jobs' = jobs \ found
                /\ last' = response("jobDelete", h, 200, g.user, g.ran, g.authNext, id, NoId)
    /\ UNCHANGED <<users, blogs, assets, uploads, nextId, clock, conns, fnIn, fnOut>>

\* PUT /:id/toggle-status: findById, flip isActive, save
JobToggle(h, id) ==
    /\ LET g == adminChain(h)
           found == {j \in jobs : j.id = id.n}
       IN  IF g.status # 0
           THEN /\ last' = response("jobToggle", h, g.status, g.user, g.ran, g.authNext, id, NoId)
                /\ UNCHANGED jobs
           ELSE IF ~id.wf                    \* CastError
           THEN /\ last' = response("jobToggle", h, 500, g.user, g.ran, g.authNext, id, NoId)
                /\ UNCHANGED jobs
           ELSE IF found = {}
           THEN /\ last' = response("jobToggle", h, 404, g.user, g.ran, g.authNext, id, NoId)
                /\ UNCHANGED jobs
           ELSE /\ jobs' = {IF j \in found
                            THEN jobPreSave([j EXCEPT !.isActive = ~j.isActive], FALSE) ELSE j :
                            j \in jobs}
                /\ last' = response("jobToggle", h, 200, g.user, g.ran, g.authNext, id, NoId)
    /\ UNCHANGED <<users, blogs, assets, uploads, nextId, clock, conns, fnIn, fnOut>>

\* jobSchema.virtual('isOpen') with the deadline check left out
isOpenIgnoreDeadline(job, now) == job.isActive

\* jobSchema.virtual('isOpen'), evaluated at time now
isOpen(job, now) ==
    IF ~job.isActive THEN FALSE
    ELSE IF job.deadline.set /\ now > job.deadline.t THEN FALSE
    ELSE TRUE

\* GET /api/job/admin/all
JobAdminAll(h) ==
    /\ LET g == adminChain(h)
           \* res.json of a job document: toJSON with virtuals
           jobJSON(job, now) ==
               [isActive |-> job.isActive, id |-> job.id, deadline |-> job.deadline,
                isOpen |-> isOpen(job, now)]
       IN  IF g.status # 0
           THEN /\ last' = response("jobAdminAll", h, g.status, g.user, g.ran, g.authNext, NoId, NoId)
                /\ UNCHANGED fnOut
           ELSE /\ last' = response("jobAdminAll", h, 200, g.user, g.ran, g.authNext, NoId, NoId)
                /\ fnOut' = [op |-> "jobList", val |-> {jobJSON(j, clock) : j \in jobs},
                             prev |-> clock]
    /\ UNCHANGED <<users, stores, nextId, clock, conns, fnIn>>

(***************************************************************************)
(* Job postings over time: creates, status toggles and admin listings.     *)
(***************************************************************************)

NextJob ==
    \/ Tick
    \/ \E d \in {NoDeadline, [t |-> 1, set |-> TRUE]} :
          JobCreate(validHeader("u1"), JobTitle, d, TRUE)
    \/ JobToggle(validHeader("u1"), FirstId)
    \/ JobAdminAll(validHeader("u1"))
    \/ \E currency \in {"USD", "XYZ"},
          invalid \in {{}, {"salary.min"}, {"salary.period"}, {"applyLink", "applyEmail"},
                       {"applicationDeadline"}} :
          JobUpdate(validHeader("u1"), FirstId,
                    jobBody({"salary.currency"} \cup invalid, <<>>, NoJobSlug, TRUE,
                            currency, invalid))

SpecJob == InitServer /\ [][NextJob]_vars

\* C11: every job create by an admin with a valid body is answered 201, and
\* no two stored jobs share a slug.
C11_BothCreated ==
    /\ (last.route = "jobCreate" /\ last.user.role = "admin") => last.status = 201
    /\ \A j1, j2 \in jobs : j1.slug = j2.slug => j1 = j2

\* C23: an update with a salary bound that is not a number, a currency or
\* period outside the enum, an applyLink that is no URL, an applyEmail that is
\* no address or a deadline that is no date is answered 400 and stores nothing.
C23_UpdateValidated ==
    /\ \A j \in jobs : j.currency \in {"INR", "USD", "EUR", "GBP"}
    /\ last.route = "jobUpdate" /\ last.ran \cap {"CastError", "ValidationError"} # {}
           => last.status = 400

\* C16: in every listing, isOpen holds exactly for the jobs that are active
\* and have no deadline or a deadline not before the time of the read.
C16_IsOpen ==
    fnOut.op = "jobList" =>
        \A r \in fnOut.val :
            r.isOpen <=> (r.isActive /\ (~r.deadline.set \/ fnOut.prev <= r.deadline.t))

\* an active job was listed after its deadline had passed and is not open
C16_Witness ==
    /\ fnOut.op = "jobList"
    /\ \E r \in fnOut.val : r.isActive /\ r.deadline.set /\ fnOut.prev > r.deadline.t /\ ~r.isOpen
    /\ \E r \in fnOut.val : r.isActive /\ ~r.deadline.set /\ r.isOpen

(***************************************************************************)
(* jobSchema.virtual('salaryRange') (models/job.js).                       *)
(*                                                                         *)
(* An amount is a natural number, NaN (what Number() makes of a string     *)
(* such as '100k') or absent.  A formatted amount is a record of the       *)
(* suffix and the digits printed before it.                                *)
(***************************************************************************)
Lakh == 100000
Thousand == 1000

NaN == [n |-> 0, num |-> FALSE, nan |-> TRUE]
Num(n) == [n |-> n, num |-> TRUE, nan |-> FALSE]


\* JavaScript truthiness of an amount: 0, NaN and undefined are falsy
truthy(a) == a.num /\ a.n # 0

\* nearest integer to a / d, a tie going up
roundHalfUp(a, d) == (2 * a + d) \div (2 * d)

\* (n / 1000).toFixed(0): a tie n / 1000 = k + 0.5 is exact in binary and
\* toFixed picks the larger neighbour
toFixed0(n) == roundHalfUp(n, Thousand)

\* (n / 100000).toFixed(1), in tenths
toFixed1(n) ==
    \* 1.15 and 1.45 are held as doubles below the tie, so toFixed(1) rounds down
    IF n \in {115000, 145000} THEN roundHalfUp(n, Lakh \div 10) - 1
    ELSE roundHalfUp(n, Lakh \div 10)

Invalid == [suffix |-> "Invalid"]
Plain(n) == [suffix |-> "", int |-> n]

\* formatSalary with the lakh branch removed
formatSalaryNoLakh(amount, period) ==
    IF ~amount.num THEN Invalid
    ELSE IF period = "hourly" THEN [suffix |-> "/hr", int |-> amount.n]
    ELSE IF amount.n >= Thousand THEN [suffix |-> "K", int |-> toFixed0(amount.n)]
    ELSE Plain(amount.n)

\* const formatSalary = (amount) => ..., with this.salary.period
formatSalary(amount, period) ==
    IF ~amount.num THEN Invalid                    \* isNaN(Number(amount))
    ELSE IF period \in {"yearly", "monthly"}
    THEN IF amount.n >= Lakh
         THEN [suffix |-> "L", int |-> toFixed1(amount.n) \div 10,
               frac |-> toFixed1(amount.n) % 10]
         ELSE IF amount.n >= Thousand
         THEN [suffix |-> "K", int |-> toFixed0(amount.n)]
         ELSE Plain(amount.n)
    ELSE IF period = "hourly" THEN [suffix |-> "/hr", int |-> amount.n]
    ELSE Plain(amount.n)

NotSpecified == [shape |-> "Not specified"]

\* the getter of salaryRange on this.salary
salaryRange(salary) ==
    IF ~truthy(salary.min) /\ ~truthy(salary.max) THEN NotSpecified
    ELSE IF truthy(salary.min) /\ truthy(salary.max)
    THEN [currency |-> salary.currency, period |-> salary.period,
          shape |-> "min - max",
          min |-> formatSalary(salary.min, salary.period),
          max |-> formatSalary(salary.max, salary.period)]
    ELSE IF truthy(salary.min)
    THEN [currency |-> salary.currency, period |-> salary.period,
          shape |-> "min+", min |-> formatSalary(salary.min, salary.period)]
    ELSE IF truthy(salary.max)
    THEN [currency |-> salary.currency, period |-> salary.period,
          shape |-> "Up to max", max |-> formatSalary(salary.max, salary.period)]
    ELSE NotSpecified

FormatSalary ==
    /\ fnOut.op = "none"
    /\ \E a \in {fnIn.min, fnIn.max} :
          fnOut' = [op |-> "formatSalary", val |-> formatSalary(a, fnIn.period), prev |-> a]
    /\ UNCHANGED <<users, stores, nextId, clock, conns, last, fnIn>>

SalaryRange ==
    /\ fnOut.op = "none"
    /\ fnOut' = [op |-> "salaryRange", val |-> salaryRange(fnIn), prev |-> fnIn]
    /\ UNCHANGED <<users, stores, nextId, clock, conns, last, fnIn>>

\* salary sub-records: the defaults fill currency and period
InitSalary ==
    /\ InitStores
    /\ users = InitUsers
    /\ LET SalaryAmounts ==
               {Num(n) : n \in {0, 1, 150, 999, 1000, 1499, 1500, 5000, 99499, 99500, 99999,
                                100000, 104999, 105000, 115000, 125000, 145000, 149999,
                                1000000}}
               \cup {NaN, [n |-> 0, num |-> FALSE, nan |-> FALSE]}      \* NaN, undefined
       IN  fnIn \in [min : SalaryAmounts, max : SalaryAmounts, currency : {"INR"},
                     period : {"hourly", "monthly", "yearly"}]
    /\ fnOut = NoResult

NextSalary == FormatSalary \/ SalaryRange

SpecSalary == InitSalary /\ [][NextSalary]_vars

\* C14: hourly prints the amount with '/hr'; monthly and yearly print lakhs to
\* one decimal with 'L' from 100000, thousands rounded to an integer with 'K'
\* from 1000, and the bare amount below; a non-numeric amount prints 'Invalid'.
C14_FormatSalary ==
    fnOut.op = "formatSalary" =>
        LET a == fnOut.prev
            p == fnIn.period
            r == fnOut.val
            dist(x, y) == IF x >= y THEN x - y ELSE y - x
        IN  /\ a = NaN => r = Invalid
            /\ a.num /\ p = "hourly" => r = [suffix |-> "/hr", int |-> a.n]
            /\ a.num /\ p \in {"monthly", "yearly"} =>
                  /\ a.n >= Lakh =>
                        /\ r.suffix = "L" /\ r.frac \in 0..9
                        /\ 2 * dist((10 * r.int + r.frac) * (Lakh \div 10), a.n) <= Lakh \div 10
                  /\ (a.n >= Thousand /\ a.n < Lakh) =>
                        /\ r.suffix = "K"
                        /\ 2 * dist(r.int * Thousand, a.n) <= Thousand
                  /\ a.n < Thousand => r = Plain(a.n)
            /\ (a = Num(100000) /\ p = "yearly") => r = [suffix |-> "L", int |-> 1, frac |-> 0]
            /\ (a = Num(5000) /\ p = "monthly") => r = [suffix |-> "K", int |-> 5]

\* 100000 yearly was formatted as 1.0L
C14_Witness ==
    /\ fnOut.op = "formatSalary"
    /\ fnOut.prev = Num(100000)
    /\ fnIn.period = "yearly"
    /\ fnOut.val = [suffix |-> "L", int |-> 1, frac |-> 0]

\* C15: the shape of salaryRange follows the bounds that are present, 0 being
\* a present bound.
C15_RangeShape ==
    (fnOut.op = "salaryRange" /\ fnIn.min # NaN /\ fnIn.max # NaN) =>
        LET r == fnOut.val
            \* a bound is present when it holds a number
            present(a) == a.num
        IN  /\ (present(fnIn.min) /\ present(fnIn.max)) => r.shape = "min - max"
            /\ (present(fnIn.min) /\ ~present(fnIn.max)) => r.shape = "min+"
            /\ (~present(fnIn.min) /\ present(fnIn.max)) => r.shape = "Up to max"
            /\ (~present(fnIn.min) /\ ~present(fnIn.max)) => r = NotSpecified

(***************************************************************************)
(* Asset mappings (routes/assets.js, models/Asset.js).                     *)
(***************************************************************************)
\* req.body.url when the field is missing
NoUrl == ""

\* Asset.findOneAndUpdate({key}, {key, url, alt}, {upsert: true})
upsertAsset(key, url) == {a \in assets : a.key # key} \cup {[key |-> key, url |-> url]}

AssetPut(h, key, url) ==
    /\ LET g == adminChain(h)
       IN  IF g.status # 0
           THEN /\ last' = response("assetPut", h, g.status, g.user, g.ran, g.authNext, NoId, NoId)
                /\ UNCHANGED assets
           ELSE IF url = NoUrl
           THEN /\ last' = response("assetPut", h, 400, g.user, g.ran, g.authNext, NoId, NoId)
                /\ UNCHANGED assets
           ELSE /\ assets' = upsertAsset(key, url)
                /\ last' = response("assetPut", h, 200, g.user, g.ran, g.authNext, NoId, NoId)
    /\ UNCHANGED <<users, blogs, jobs, uploads, nextId, clock, conns, fnIn, fnOut>>

\* The upsert as the store runs it, on connection c: the match and, when no
\* mapping matches, the insert are two steps, and another request's write may
\* fall between them.  A match is updated in the step that finds it.
AssetPutBegin(c, h, key, url) ==
    /\ conns[c].pc \in {"idle", "done"}
    /\ LET g == adminChain(h)
           st == IF g.status # 0 THEN g.status
                 ELSE IF url = NoUrl THEN 400
                 ELSE IF \E a \in assets : a.key = key THEN 200
                 ELSE 0
       IN  IF st # 0
           THEN /\ assets' = IF st = 200 THEN upsertAsset(key, url) ELSE assets
                /\ last' = response("assetPut", h, st, g.user, g.ran, g.authNext, NoId, NoId)
                /\ conns' = [conns EXCEPT ![c] = doneConn(h, g.user, <<>>, st)]
           ELSE /\ conns' = [conns EXCEPT ![c] =
                                [title |-> <<>>, status |-> 0, user |-> g.user, hdr |-> h,
                                 pc |-> "upsert", publish |-> FALSE,
                                 doc |-> [key |-> key, url |-> url]]]
                /\ UNCHANGED <<assets, last>>
    /\ UNCHANGED <<users, blogs, jobs, uploads, nextId, clock, fnIn, fnOut>>

\* the insert of the upsert.  When the key was inserted in between, the unique
\* index rejects the insert: the store either runs the upsert again, now as
\* an update (retried), or reports the duplicate key, which the catch of the
\* route answers 500
AssetPutInsert(c, retried) ==
    /\ conns[c].pc = "upsert"
    /\ LET r == conns[c]
           err == IF (\E a \in assets : a.key = r.doc.key) /\ ~retried
                  THEN "DuplicateKey" ELSE "none"
           st == IF err = "none" THEN 200 ELSE 500
       IN  /\ (\A a \in assets : a.key # r.doc.key) => retried
           /\ assets' = IF err = "none" THEN upsertAsset(r.doc.key, r.doc.url) ELSE assets
           /\ last' = response("assetPut", r.hdr, st, r.user,
                               {"protect", "authorize", "handler"} \cup errRan(err), 1,
                               NoId, NoId)
           /\ conns' = [conns EXCEPT ![c] = doneConn(r.hdr, r.user, <<>>, st)]
    /\ UNCHANGED <<users, blogs, jobs, uploads, nextId, clock, fnIn, fnOut>>

AssetDelete(h, key) ==
    /\ LET g == adminChain(h)
       IN  IF g.status # 0
           THEN /\ last' = response("assetDelete", h, g.status, g.user, g.ran, g.authNext, NoId, NoId)
                /\ UNCHANGED assets
           ELSE /\ assets' = {a \in assets : a.key # key}
                /\ last' = response("assetDelete", h, 200, g.user, g.ran, g.authNext, NoId, NoId)
    /\ UNCHANGED <<users, blogs, jobs, uploads, nextId, clock, conns, fnIn, fnOut>>

(***************************************************************************)
(* Media (routes/media.js, middleware/upload.js).                          *)
(***************************************************************************)
\* POST /api/media with the given file parts in field 'images'; multer removes
\* the files it has stored when a later part fails
MediaUpload(h, files) ==
    /\ LET g == adminChain(h)
           err == uploadMultiple(files)
       IN  IF g.status # 0
           THEN /\ last' = response("mediaUpload", h, g.status, g.user, g.ran, g.authNext, NoId, NoId)
                /\ UNCHANGED uploads
           ELSE IF err # "none"
           THEN /\ last' = response("mediaUpload", h, handleUploadError(err).status, g.user,
                                    (g.ran \ {"handler"}) \cup {"upload", err},
                                    g.authNext, NoId, NoId)
                /\ UNCHANGED uploads
           ELSE /\ \E fs \in SUBSET (FileNames \ uploads) :
                      /\ Cardinality(fs) = Len(files)
                      /\ uploads' = uploads \cup fs
                /\ last' = response("mediaUpload", h, 201, g.user, g.ran \cup {"upload"},
                                    g.authNext, NoId, NoId)
    /\ UNCHANGED <<users, blogs, jobs, assets, nextId, clock, conns, fnIn, fnOut>>

\* File n of the upload directory is stored under the one-character name
\* "1", "2", "3", "4"
storedName(n) == <<(<<"1", "2", "3", "4">>)[n]>>

\* the members of [A-Za-z0-9_.\- ] among the characters in use
AllowedChars == {"1", "2", "3", "4", "a", "z", "A", "Z", "_", ".", "-", " "}

\* raw.includes(x) for a one-character x, and raw.includes('..')
includes(raw, c) == \E i \in 1..Len(raw) : raw[i] = c
includesDotDot(raw) == \E i \in 1..(Len(raw) - 1) : raw[i] = "." /\ raw[i + 1] = "."

\* the guards without the allow-list
filenameRejectedTraversalOnly(raw) ==
    includes(raw, "/") \/ includes(raw, "\\") \/ includesDotDot(raw)

\* the two guards of the handler
filenameRejected(raw) ==
    \/ includes(raw, "/") \/ includes(raw, "\\") \/ includesDotDot(raw)
    \* /^[A-Za-z0-9_.\- ]+$/.test(raw)
    \/ ~(raw # <<>> /\ \A i \in 1..Len(raw) : raw[i] \in AllowedChars)

\* a path is the sequence of its segments below the application directory
UploadsDir == <<<<"uploads">>>>

\* path.join(dir, name): the segments of name appended to dir and normalised,
\* '' and '.' dropped and '..' removing the segment before it
RECURSIVE joinSegments(_, _)
joinSegments(path, segs) ==
    IF segs = <<>> THEN path
    ELSE joinSegments(IF Head(segs) \in {<<>>, <<".">>} THEN path
                      ELSE IF Head(segs) = <<".", ".">> THEN SubSeq(path, 1, Len(path) - 1)
                      ELSE Append(path, Head(segs)),
                      Tail(segs))
pathJoin(dir, filename) == joinSegments(dir, split(filename, "/"))

\* fs.promises.unlink(filePath): removes a stored file, fails with EISDIR on a
\* directory and with ENOENT on a path that names nothing
unlink(filePath) ==
    IF Len(filePath) <= Len(UploadsDir)
    THEN [uploads |-> uploads, err |-> "EISDIR"]
    ELSE IF /\ SubSeq(filePath, 1, Len(UploadsDir)) = UploadsDir
            /\ Len(filePath) = Len(UploadsDir) + 1
            /\ \E n \in uploads : storedName(n) = filePath[Len(filePath)]
    THEN [uploads |-> {n \in uploads : storedName(n) # filePath[Len(filePath)]},
          err |-> "none"]
    ELSE [uploads |-> uploads, err |-> "ENOENT"]

\* DELETE /api/media/:filename; fnIn is req.params.filename and fnOut the
\* unlink call the handler made
MediaDelete(h, raw) ==
    /\ LET g == adminChain(h)
           \* path.basename(raw) on POSIX: what follows the last '/', trailing '/'
           \* dropped
           basename ==
               LET t == dropTrailingIn(raw, {"/"})
                   slashes == {i \in 1..Len(t) : t[i] = "/"}
               IN  IF slashes = {} THEN t
                   ELSE SubSeq(t, (CHOOSE i \in slashes : \A k \in slashes : k <= i) + 1,
                               Len(t))
           filePath == pathJoin(UploadsDir, basename)
           r == unlink(filePath)
       IN  IF g.status # 0
           THEN /\ last' = response("mediaDelete", h, g.status, g.user, g.ran, g.authNext, NoId, NoId)
                /\ UNCHANGED uploads
                /\ fnOut' = NoResult
           ELSE IF filenameRejected(raw)
           THEN /\ last' = response("mediaDelete", h, 400, g.user, g.ran, g.authNext, NoId, NoId)
                /\ UNCHANGED uploads
                /\ fnOut' = NoResult
           ELSE /\ uploads' = r.uploads
                /\ fnOut' = [op |-> "unlink", val |-> filePath, prev |-> r.err]
                /\ last' = response("mediaDelete", h,
                                    IF r.err = "none" THEN 200
                                    ELSE IF r.err = "ENOENT" THEN 404 ELSE 500,
                                    g.user, g.ran, g.authNext, NoId, NoId)
    /\ fnIn' = raw
    /\ UNCHANGED <<users, blogs, jobs, assets, nextId, clock, conns>>

\* GET /files/:name of server.js.  raw is the path segment as sent, with the
\* escapes %2F and %2E as single elements; the route matches a segment without
\* '/', and req.params.name is the segment decoded.  The application
\* directory holds the upload directory and the file server.js (one element).
\* fs.access succeeds on a directory as well, for which res.sendFile calls
\* next() (EISDIR).  fnOut is the sendFile call the handler made.
FileServe(raw) ==
    /\ LET name == [i \in 1..Len(raw) |-> IF raw[i] = "%2F" THEN "/"
                                         ELSE IF raw[i] = "%2E" THEN "."
                                         ELSE raw[i]]
           filePath == pathJoin(UploadsDir, name)
           matched == raw # <<>> /\ ~includes(raw, "/")
           isFile == \/ filePath = <<<<"server.js">>>>
                     \/ unlink(filePath).err = "none"
           served == matched /\ isFile
       IN  /\ last' = response("files", NoHeader, IF served THEN 200 ELSE 404, UndefinedUser,
                               IF matched THEN {"handler"} ELSE {}, 0, NoId, NoId)
           /\ fnOut' = IF served THEN [op |-> "sendFile", val |-> filePath, prev |-> raw]
                        ELSE NoResult
    /\ UNCHANGED <<users, stores, nextId, clock, conns, fnIn>>

\* PUT /api/user/:id/status (admin): toggles the isActive flag of an account
UserToggleStatus(h, id) ==
    /\ LET g == adminChain(h)
       IN  IF g.status # 0
           THEN /\ last' = response("userStatus", h, g.status, g.user, g.ran, g.authNext, NoId, NoId)
                /\ UNCHANGED users
           ELSE IF users[id] = NoUser
           THEN /\ last' = response("userStatus", h, 404, g.user, g.ran, g.authNext, NoId, NoId)
                /\ UNCHANGED users
           ELSE /\ users' = [users EXCEPT ![id].isActive = ~users[id].isActive]
                /\ last' = response("userStatus", h, 200, g.user, g.ran, g.authNext, NoId, NoId)
    /\ UNCHANGED <<stores, nextId, clock, conns, fnIn, fnOut>>

(***************************************************************************)
(* Role gating: the admin routes under callers of every role.              *)
(***************************************************************************)
GateHeaders == {validHeader("u1"), validHeader("u2")}

NextGate ==
    \/ \E h \in GateHeaders : BlogCreateBegin(1, h, TitleZaba7, TRUE, TRUE, "image")
    \/ BlogCreateStore(1, "none")
    \/ \E h \in GateHeaders :
          BlogUpdate(h, FirstId, updateBody({"title"}, TitleAbJo, <<>>, "u1", TRUE), "image", "none")
    \/ \E h \in GateHeaders : BlogDelete(h, FirstId)
    \/ \E h \in GateHeaders : JobCreate(h, JobTitle, NoDeadline, TRUE)
    \/ \E h \in GateHeaders :
          JobUpdate(h, FirstId, jobBody({"title"}, TitleAbJo, NoJobSlug, TRUE, "INR", {}))
    \/ \E h \in GateHeaders : JobDelete(h, FirstId)
    \/ \E h \in GateHeaders : JobToggle(h, FirstId)
    \/ \E h \in GateHeaders, url \in {"/uploads/a.png", NoUrl} : AssetPut(h, "logo", url)
    \/ \E h \in GateHeaders : AssetDelete(h, "logo")
    \/ \E h \in GateHeaders : MediaUpload(h, <<"image">>)
    \/ \E h \in GateHeaders : MediaDelete(h, storedName(1))

SpecGate == InitServer /\ [][NextGate]_vars

\* C6: a resolved identity passes authorize('admin') iff its role is admin and
\* is answered 403, never 401, otherwise; the admin routes change the document
\* store or the upload directory only for a caller whose role is admin.
C6_AdminOnly ==
    [][LET AdminRoutes ==
               {"blogCreate", "blogUpdate", "blogDelete", "jobCreate", "jobUpdate",
                "jobDelete", "jobToggle", "assetPut", "assetDelete", "mediaUpload",
                "mediaDelete"}
       IN
       /\ (/\ last' # last
           /\ last'.route \in AdminRoutes
           /\ isResolved(last'.user))
          => /\ "authorize" \in last'.ran
             /\ last'.status # 401
             /\ last'.user.role # "admin" =>
                   (last'.status = 403 /\ last'.ran = {"protect", "authorize"})
             /\ last'.user.role = "admin" => last'.ran \cap {"handler", "upload"} # {}
       /\ stores' # stores
          => \/ last' # last /\ last'.route \in AdminRoutes /\ last'.user.role = "admin"
             \/ \E c \in Conns : conns'[c] # conns[c] /\ conns'[c].user.role = "admin"]_vars

\* a caller with role user was refused a job create after an admin had filled
\* the stores
C6_Witness ==
    /\ last.route = "jobCreate"
    /\ last.status = 403
    /\ last.user.role = "user"
    /\ blogs # {} /\ uploads # {} /\ assets # {}

(***************************************************************************)
(* Comments: one blog, its comments and their deletion.                    *)
(***************************************************************************)

InitAccounts ==
    /\ InitStores
    /\ users \in {InitUsers, [InitUsers EXCEPT !["u3"] = NoUser]}
    /\ fnIn = <<>>
    /\ fnOut = NoResult

NextComment ==
    \/ BlogCreateBegin(1, validHeader("u1"), TitleZaba7, TRUE, TRUE, "none")
    \/ BlogCreateStore(1, "none")
    \/ \E u \in UserIds :
          BlogUpdate(validHeader("u1"), FirstId,
                     updateBody({"author"}, <<>>, <<>>, u, TRUE), "none", "none")
    \/ \E h \in {validHeader(u) : u \in UserIds} : BlogComment(h, FirstId, TRUE)
    \/ \E h \in {validHeader(u) : u \in UserIds}, id \in IdInputs, sub \in IdInputs :
          BlogDeleteComment(h, id, sub)

SpecComment == InitAccounts /\ [][NextComment]_vars

C2_CheckOrder ==
    [][(/\ last'.seq # last.seq
        /\ last'.route = "commentDelete"
        /\ "handler" \in last'.ran) =>
        LET wellFormed == last'.id.wf /\ last'.sub.wf
            exists == \E b \in blogs : /\ b.id = last'.id.n
                                       /\ \E i \in 1..Len(b.comments) :
                                             b.comments[i].id = last'.sub.n
        IN  /\ ~wellFormed => (last'.status = 400 /\ "Blog.findOne" \notin last'.ran
                               /\ blogs' = blogs)
            /\ (wellFormed /\ ~exists) => (last'.status = 404 /\ blogs' = blogs)
            /\ last'.status = 403 => (wellFormed /\ exists)]_vars

\* a caller who is neither admin nor the blog's author named a missing comment
\* of an existing blog and was answered 404
C2_Witness ==
    /\ last.route = "commentDelete"
    /\ last.status = 404
    /\ last.user.role = "user"
    /\ last.sub.wf
    /\ \E b \in blogs : b.id = last.id.n /\ b.author # last.user.id /\ b.comments # <<>>

(***************************************************************************)
(* Authentication: every credential against protected and optional routes. *)
(***************************************************************************)
AuthHeaders ==
    {NoHeader, [scheme |-> "Basic", token |-> NoToken], [scheme |-> "Bearer", token |-> NoToken]}
    \cup {[scheme |-> "Bearer", token |-> [id |-> "u3", kind |-> k]] :
             k \in {"expired", "badsig", "malformed"}}
    \cup {validHeader("u1"), validHeader("u3")}

NextAuth ==
    \/ BlogCreateBegin(1, validHeader("u1"), TitleZaba7, TRUE, TRUE, "none")
    \/ BlogCreateStore(1, "none")
    \/ \E h \in AuthHeaders, id \in {NoId, FirstId} : BlogLike(h, id)
    \/ \E h \in AuthHeaders : BlogDelete(h, FirstId)
    \/ \E h \in AuthHeaders : BlogRead(h, normalize(TitleZaba7))

SpecAuth == InitAccounts /\ [][NextAuth]_vars

\* C3: protect either answers 401 or hands on a request that carries a
\* resolved identity.
C3_ProtectResolvesOr401 ==
    last.route \in {"blogCreate", "blogUpdate", "blogDelete", "blogLike", "blogComment",
                    "commentDelete"} =>
        \/ last.status = 401 /\ last.ran = {"protect"}
        \/ isResolved(last.user)

\* C4: on a protected route a missing or unverifiable credential is answered
\* 401, nothing after protect runs, and nothing is changed.
C4_BadCredential401 ==
    [][(/\ last'.seq # last.seq
        /\ last'.route \in {"blogCreate", "blogUpdate", "blogDelete", "blogLike",
                            "blogComment", "commentDelete"}
        \* no Bearer token, or one that jwt.verify rejects
        /\ (last'.hdr.scheme # "Bearer" \/ last'.hdr.token.kind # "valid"))
       => /\ last'.status = 401
          /\ last'.ran = {"protect"}
          /\ <<users, stores>>' = <<users, stores>>]_vars

\* an expired token was presented to the like route of an existing blog
C4_Witness ==
    /\ last.route = "blogLike"
    /\ last.hdr.token.kind = "expired"
    /\ last.status = 401
    /\ \E b \in blogs : b.id = last.id.n

\* C5: optionalAuth calls next exactly once and never answers itself; without
\* a credential, or with one that fails verification, no identity is resolved.
C5_OptionalAuthProceeds ==
    last.route = "blogRead" =>
        /\ last.authNext = 1
        /\ "handler" \in last.ran
        /\ last.status \notin {401, 403}
        /\ (last.hdr.scheme # "Bearer" \/ last.hdr.token.kind # "valid")
              => ~isResolved(last.user)

\* a published blog was read with an expired token and served without identity
C5_Witness ==
    /\ last.route = "blogRead"
    /\ last.hdr.token.kind = "expired"
    /\ last.status = 200
    /\ last.user = NullUser

(***************************************************************************)
(* Blog lifecycle: create, update, like, comment and read of one blog.     *)
(***************************************************************************)
BlogTitles == {TitleZaba7, TitleAbJo}

NextBlog ==
    \/ \E t \in BlogTitles : BlogCreateBegin(1, validHeader("u1"), t, TRUE, TRUE, "none")
    \/ BlogCreateStore(1, "none")
    \/ \E body \in {updateBody({"title"}, t, <<>>, "u1", TRUE) : t \in BlogTitles}
                     \cup {updateBody({"slug"}, <<>>, <<"a", "b">>, "u1", TRUE)} :
          BlogUpdate(validHeader("u1"), FirstId, body, "none", "none")
    \/ \E h \in GateHeaders : BlogLike(h, FirstId)
    \/ \E h \in GateHeaders : BlogComment(h, FirstId, TRUE)
    \/ \E t \in BlogTitles : BlogRead(NoHeader, normalize(t))

SpecBlog == InitServer /\ [][NextBlog]_vars

\* C8: every stored blog's slug is the normalisation of its current title.
C8_SlugTracksTitle ==
    \A b \in blogs : b.slug = normalize(b.title)

(***************************************************************************)
(* Store errors: duplicate keys and other failures of a write.             *)
(***************************************************************************)

NextConflict ==
    \/ \E t \in {<<"z", "a", "b", "a", " ", "7", "!">>, <<"z", "a", "b", "a", "-", "7">>,
                 TitleAbJo} :
          BlogCreateBegin(1, validHeader("u1"), t, TRUE, TRUE, "none")
    \/ \E fault \in {"none"} \cup StoreFaults : BlogCreateStore(1, fault)
    \/ \E id \in {[n |-> k, wf |-> TRUE] : k \in 1..2},
          body \in {updateBody({"title"}, TitleZaba7, <<>>, "u1", TRUE),
                    updateBody({"slug"}, <<>>, normalize(TitleAbJo), "u1", TRUE)},
          fault \in {"none"} \cup StoreFaults :
          BlogUpdate(validHeader("u1"), id, body, "none", fault)
    \/ Tick
    \/ JobCreate(validHeader("u1"), JobTitle, NoDeadline, TRUE)
    \/ \E id \in {[n |-> k, wf |-> TRUE] : k \in 1..2} :
          JobUpdate(validHeader("u1"), id,
                    jobBody({"slug"}, <<>>, [base |-> jobBaseSlug(JobTitle), ts |-> 0], TRUE,
                            "INR", {}))

SpecConflict == InitServer /\ [][NextConflict]_vars

\* C12: a request that met a duplicate key error of the store is answered 409.
C12_ConflictIs409 ==
    "DuplicateKey" \in last.ran => last.status = 409

\* C13: blog create and blog update answer 409 only for a duplicate key, and
\* answer 500 for any other error of the store.
C13_409OnlyOnConflict ==
    last.route \in {"blogCreate", "blogUpdate"} =>
        /\ last.status = 409 => "DuplicateKey" \in last.ran
        /\ last.ran \cap StoreFaults # {} => last.status = 500

(***************************************************************************)
(* Upload intake and media deletion under an admin caller.                 *)
(***************************************************************************)

NextUpload ==
    \/ \E file \in FileKinds \cup {"none"}, fieldsOk \in BOOLEAN :
          BlogCreateBegin(1, validHeader("u1"), TitleZaba7, fieldsOk, TRUE, file)
    \/ BlogCreateStore(1, "none")
    \/ \E file \in FileKinds \cup {"none"}, fieldsOk \in BOOLEAN :
          BlogUpdate(validHeader("u1"), FirstId,
                     updateBody({"title"}, TitleAbJo, <<>>, "u1", fieldsOk), file, "none")
    \* the file parts of a POST /api/media request
    \/ \E files \in {<<>>, <<"image">>, <<"image", "image">>, <<"notImage">>,
                     <<"image", "tooLarge">>, <<"tooLarge", "notImage">>,
                     [i \in 1..(UploadLimit + 1) |-> "image"]} :
          MediaUpload(validHeader("u1"), files)
    \* the filenames of DELETE /api/media/:filename requests
    \/ \E raw \in {storedName(1), storedName(2), <<".">>, <<".", ".">>,
                   <<".", ".", "/", "1">>, <<"1", "/", "2">>, <<"\\", "1">>, <<"*">>,
                   <<"1", "*">>, <<"1", ".", ".">>, <<"1", "-", "2">>, <<" ", "1">>} :
          MediaDelete(validHeader("u1"), raw)

SpecUpload == InitServer /\ [][NextUpload]_vars

\* C17: a file of more than 5 MiB is answered 400 with the size message and a
\* file of a non-image content type 400 with the type message; the two
\* messages differ, the route handler does not run and nothing is stored.
C17_UploadRejected ==
    [][(last' # last /\ last'.ran \cap {"LIMIT_FILE_SIZE", "Not an image!"} # {})
       => /\ last'.status = 400
          /\ last'.body.status = "error"
          /\ "LIMIT_FILE_SIZE" \in last'.ran
                => last'.body.message = "File too large. Maximum size is 5MB."
          /\ "Not an image!" \in last'.ran
                => last'.body.message = "Not an image! Please upload an image."
          /\ handleUploadError("LIMIT_FILE_SIZE").message
                # handleUploadError("Not an image!").message
          /\ "handler" \notin last'.ran
          /\ stores' = stores
          /\ nextId' = nextId]_vars

\* a blog create carrying an oversized image was refused by upload intake
C17_Witness ==
    /\ last.route = "blogCreate"
    /\ "LIMIT_FILE_SIZE" \in last.ran
    /\ last.status = 400

\* C18: a POST /api/media request with more than 5 files is answered 400 with
\* the 'too many files' message by handleUploadError, not 500.
C18_TooManyFilesIs400 ==
    "LIMIT_UNEXPECTED_FILE" \in last.ran
        => /\ last.status = 400
           /\ last.body.message = "Too many files. Maximum is 5 files."

\* C19: the delete handler calls unlink only for a safe filename; any other
\* filename is answered 400 with the upload directory unchanged; a removed
\* file is the direct child of the upload directory named by the request.
C19_DeleteGuard ==
    [][(last' # last /\ last'.route = "mediaDelete" /\ "handler" \in last'.ran)
       => LET raw == fnIn'
              safeFilename ==
                  /\ \A i \in 1..Len(raw) :
                        raw[i] \notin {"/", "\\"} /\ raw[i] \in AllowedChars
                  /\ \A i \in 1..(Len(raw) - 1) : ~(raw[i] = "." /\ raw[i + 1] = ".")
          IN
          /\ ~safeFilename
                => (last'.status = 400 /\ uploads' = uploads /\ fnOut'.op # "unlink")
          /\ fnOut'.op = "unlink" => safeFilename
          /\ uploads' # uploads
                => /\ fnOut'.op = "unlink"
                   /\ fnOut'.val = Append(UploadsDir, fnIn')
                   /\ uploads' = {n \in uploads : storedName(n) # fnIn'}]_vars

\* an unsafe filename was refused while the upload directory held a file
C19_Witness ==
    /\ last.route = "mediaDelete"
    /\ last.status = 400
    /\ "handler" \in last.ran
    /\ \E i \in 1..Len(fnIn) : fnIn[i] \notin AllowedChars
    /\ uploads # {}

\* C26: a blog create or update answered 400, 401, 403, 404 or 409 leaves the
\* collections and the upload directory as they were.
C26_RejectedChangesNothing ==
    [][(/\ last'.seq # last.seq
        /\ last'.route \in {"blogCreate", "blogUpdate"}
        /\ last'.status \in {400, 401, 403, 404, 409})
       => stores' = stores]_vars

(***************************************************************************)
(* The response envelope: every route answered with valid and invalid      *)
(* fields, with and without credentials.                                   *)
(***************************************************************************)
EnvelopeHeaders == {validHeader("u1"), validHeader("u2"), NoHeader}

NextEnvelope ==
    \/ \E h \in EnvelopeHeaders, fieldsOk \in BOOLEAN :
          BlogCreateBegin(1, h, TitleZaba7, fieldsOk, TRUE, "none")
    \/ BlogCreateStore(1, "none")
    \/ \E h \in EnvelopeHeaders, fieldsOk \in BOOLEAN :
          BlogUpdate(h, FirstId, updateBody({"title"}, TitleAbJo, <<>>, "u1", fieldsOk), "none", "none")
    \/ \E h \in EnvelopeHeaders, commentOk \in BOOLEAN : BlogComment(h, FirstId, commentOk)
    \/ \E h \in EnvelopeHeaders, fieldsOk \in BOOLEAN : JobCreate(h, JobTitle, NoDeadline, fieldsOk)
    \/ \E h \in EnvelopeHeaders, fieldsOk \in BOOLEAN :
          JobUpdate(h, FirstId, jobBody({"title"}, TitleAbJo, NoJobSlug, fieldsOk, "INR", {}))
    \/ \E h \in EnvelopeHeaders,
          files \in {<<"notImage">>, [i \in 1..(UploadLimit + 1) |-> "image"]} :
          MediaUpload(h, files)

SpecEnvelope == InitServer /\ [][NextEnvelope]_vars

\* C20: every failure response (status 400 and above) has a body with status
\* 'error' and a message, the 400 responses of field validation included.
C20_FailureHasMessage ==
    last.status >= 400
        => /\ last.body.status = "error"
           /\ "message" \in last.body.fields
           /\ last.body.message # ""

(***************************************************************************)
(* Two blog creates, one per connection, in every interleaving.            *)
(***************************************************************************)

NextRace ==
    \/ \E c \in Conns, h \in EnvelopeHeaders, t \in TitlePool, ok \in BOOLEAN :
          conns[c].pc = "idle" /\ BlogCreateBegin(c, h, t, ok, FALSE, "none")
    \/ \E c \in Conns : BlogCreateStore(c, "none")

SpecRace == InitServer /\ [][NextRace]_vars

\* C7: of two creates whose titles normalise to the same slug, exactly one is
\* stored and answered 201 and the other is answered 409; no two stored blogs
\* share a slug.
C7_OneStoredOneConflict ==
    \* the create on connection c got past the middleware and field validation
    LET reachedStore(c) == conns[c].pc = "done" /\ conns[c].status \notin {400, 401, 403}
    IN
    /\ \A c1, c2 \in Conns :
          (/\ c1 # c2
           /\ reachedStore(c1) /\ reachedStore(c2)
           /\ normalize(conns[c1].title) = normalize(conns[c2].title))
          => /\ {conns[c1].status, conns[c2].status} = {201, 409}
             /\ Cardinality({b \in blogs : b.slug = normalize(conns[c1].title)}) = 1
    /\ \A b1, b2 \in blogs : b1.slug = b2.slug => b1 = b2


\* C27: a create by an admin whose fields pass validation is answered 201 or
\* 409, whatever its title normalises to.
C27_CreatedOrConflict ==
    (/\ last.route = "blogCreate"
     /\ "handler" \in last.ran
     /\ "validationResult" \notin last.ran)
    => last.status \in {201, 409}

(***************************************************************************)
(* Public blog endpoints: list, featured and read by slug, over a store    *)
(* holding drafts and published blogs.                                     *)
(***************************************************************************)
NextPublic ==
    \/ \E t \in BlogTitles, publish \in BOOLEAN :
          BlogCreateBegin(1, validHeader("u1"), t, TRUE, publish, "none")
    \/ BlogCreateStore(1, "none")
    \/ \E h \in EnvelopeHeaders : BlogRead(h, normalize(TitleZaba7))
    \/ \E h \in EnvelopeHeaders, author \in {"none", "u1", "u2"}, shown \in {{1}, 1 .. MaxIds} :
          BlogList(h, author, shown)
    \/ \E flagged \in SUBSET (1 .. MaxIds) : BlogFeatured(flagged)

SpecPublic == InitServer /\ [][NextPublic]_vars

\* C21: the list and the featured list hold published blogs only; a read by
\* slug answers 200 only for a published blog, answers 404 when the blog of
\* that slug is not published, and no public request changes a blog that is
\* not published (its view counter included).
C21_PublicOnlyPublished ==
    [][last'.seq # last.seq /\ last'.route \in {"blogRead", "blogList", "blogFeatured"}
       => /\ fnOut'.op \in {"blogList", "blogFeatured"}
              => \A b \in fnOut'.val : b.status = "published"
          /\ last'.route = "blogRead" /\ last'.status = 200
              => \E b \in blogs : b.id = last'.id.n /\ b.status = "published"
          /\ last'.route = "blogRead"
              /\ (\E b \in blogs : b.slug = normalize(TitleZaba7) /\ b.status # "published")
              => last'.status = 404 /\ blogs' = blogs
          /\ \A b \in blogs : b.status # "published" => b \in blogs']_vars

\* a draft was requested by its slug: the answer is 404 and its views stay 0
C21_Witness ==
    /\ last.route = "blogRead"
    /\ last.status = 404
    /\ \E b \in blogs : b.slug = normalize(TitleZaba7) /\ b.status = "draft" /\ b.views = 0
    /\ \E b \in blogs : b.status = "published"


(***************************************************************************)
(* Array-typed fields (blog tags; job requirements, responsibilities,      *)
(* benefits, tags) sent as a list, as JSON text or as comma-delimited      *)
(* text.  A value is [kind |-> "array", v |-> list] or                     *)
(* [kind |-> "string", v |-> text].                                        *)
(***************************************************************************)
\* value.split(',').map((tag) => tag.trim()).filter(Boolean)
commaList(s) ==
    SelectSeq([i \in 1..Len(split(s, ",")) |-> trim(split(s, ",")[i])], LAMBDA t : t # <<>>)

\* JSON.parse of a text written without insignificant whitespace and without
\* escapes: a string literal, a list of string literals, or a SyntaxError
jsonParse(text) ==
    LET isLiteral(p) == /\ Len(p) >= 2
                        /\ p[1] = "'" /\ p[Len(p)] = "'"
                        /\ \A i \in 2..(Len(p) - 1) : p[i] \notin {"'", "[", "]"}
        unquote(p)   == SubSeq(p, 2, Len(p) - 1)
        pieces       == split(unquote(text), ",")
    IN  IF isLiteral(text)
        THEN [kind |-> "string", v |-> unquote(text)]
        ELSE IF Len(text) >= 2 /\ text[1] = "[" /\ text[Len(text)] = "]"
        THEN IF Len(text) = 2
             THEN [kind |-> "array", v |-> <<>>]
             ELSE IF \A i \in 1..Len(pieces) : isLiteral(pieces[i])
             THEN [kind |-> "array", v |-> [i \in 1..Len(pieces) |-> unquote(pieces[i])]]
             ELSE [kind |-> "throw", v |-> <<>>]
        ELSE [kind |-> "throw", v |-> <<>>]

\* customSanitizer of body('tags') on blog create and update
sanitizeTags(value) ==
    IF value.kind = "array"
    THEN value.v
    ELSE IF jsonParse(value.v).kind = "array"
    THEN jsonParse(value.v).v
    ELSE commaList(value.v)

\* "Convert string arrays to arrays if needed" of job create and update
jobArray(value) ==
    IF value.kind = "string" THEN commaList(value.v) ELSE value.v

\* the schema type [{ type: String, trim: true }] applied on save
castStringArray(list) == [i \in 1..Len(list) |-> trim(list[i])]

\* a blog's tags as stored
StoreBlogTags ==
    /\ fnOut.op = "none"
    /\ fnOut' = [op |-> "blogTags", val |-> castStringArray(sanitizeTags(fnIn.value)),
                 prev |-> castStringArray(sanitizeTags([kind |-> "array", v |-> fnIn.list]))]
    /\ UNCHANGED <<users, stores, nextId, clock, conns, last, fnIn>>

\* a job's requirements, responsibilities, benefits or tags as stored
StoreJobArray ==
    /\ fnOut.op = "none"
    /\ fnOut' = [op |-> "jobArray", val |-> castStringArray(jobArray(fnIn.value)),
                 prev |-> castStringArray(jobArray([kind |-> "array", v |-> fnIn.list]))]
    /\ UNCHANGED <<users, stores, nextId, clock, conns, last, fnIn>>

\* a list of up to two items in each of the three forms; the JSON text is
\* written as JSON.stringify writes it (the quote is written ')
InitArrays ==
    /\ InitStores
    /\ users = InitUsers
    /\ fnOut = NoResult
    /\ \E list \in SeqsUpTo({<<"a">>, <<" ", "b">>, <<"b", " ">>, <<>>}, 2),
          form \in {"array", "json", "comma"} :
         LET quoted(e) == <<"'">> \o e \o <<"'">>
             joined(f(_)) == IF list = <<>> THEN <<>>
                             ELSE IF Len(list) = 1 THEN f(list[1])
                             ELSE f(list[1]) \o <<",">> \o f(list[2])
             asIs(e) == e
         IN  fnIn = [value |-> IF form = "array" THEN [kind |-> "array", v |-> list]
                               ELSE IF form = "json"
                               THEN [kind |-> "string", v |-> <<"[">> \o joined(quoted) \o <<"]">>]
                               ELSE [kind |-> "string", v |-> joined(asIs)],
                     list |-> list, form |-> form]

NextArrays == StoreBlogTags \/ StoreJobArray

SpecArrays == InitArrays /\ [][NextArrays]_vars

\* C22: whatever the form, the stored value is a list of trimmed, non-empty
\* strings and equals the value stored for the native list.
C22_ArrayFormsAgree ==
    fnOut.op \in {"blogTags", "jobArray"}
        => /\ \A i \in 1..Len(fnOut.val) : fnOut.val[i] = trim(fnOut.val[i]) /\ fnOut.val[i] # <<>>
           /\ fnOut.val = fnOut.prev


(***************************************************************************)
(* Like toggles on one blog from every connection, in every interleaving.  *)
(***************************************************************************)
NextLikes ==
    \/ BlogCreateBegin(1, validHeader("u1"), TitleZaba7, TRUE, TRUE, "none")
    \/ BlogCreateStore(1, "none")
    \/ \E c \in Conns, h \in GateHeaders : LikeFind(c, h, FirstId)
    \/ \E c \in Conns : LikeSave(c)

SpecLikes == InitServer /\ [][NextLikes]_vars

\* C24: no identity appears twice in a blog's likes.
C24_LikedOnce ==
    \A b \in blogs : \A i, j \in 1..Len(b.likes) : b.likes[i] = b.likes[j] => i = j


(***************************************************************************)
(* Reads by slug of one published blog from every connection, in every     *)
(* interleaving, and reads of one active job.                              *)
(***************************************************************************)
NextViews ==
    \/ BlogCreateBegin(1, validHeader("u1"), TitleZaba7, TRUE, TRUE, "none")
    \/ BlogCreateStore(1, "none")
    \/ \E c \in Conns, h \in {NoHeader, validHeader("u2")} : ViewFind(c, h, normalize(TitleZaba7))
    \/ \E c \in Conns : ViewSave(c)
    \/ JobCreate(validHeader("u1"), JobTitle, NoDeadline, TRUE)
    \/ JobRead(NoHeader, [base |-> jobBaseSlug(JobTitle), ts |-> 0])

SpecViews == InitServer /\ [][NextViews]_vars

\* C28: every read by slug answered 200 leaves the views of the blog, or of
\* the job, one above the stored value it replaces, so that N such reads
\* raise the counter by N.
C28_NoLostView ==
    [][last'.seq # last.seq /\ last'.status = 200
       => /\ last'.route = "blogRead"
              => \E b \in blogs : /\ b.id = last'.id.n
                                  /\ [b EXCEPT !.views = b.views + 1] \in blogs'
          /\ last'.route = "jobRead"
              => \E j \in jobs : /\ j.id = last'.id.n
                                 /\ [j EXCEPT !.views = j.views + 1] \in jobs']_vars


(***************************************************************************)
(* Asset mappings: PUT and DELETE of two keys from every connection, in    *)
(* every interleaving.                                                     *)
(***************************************************************************)
NextAssets ==
    \/ \E c \in Conns, h \in GateHeaders, key \in {"logo", "hero"},
          url \in {"/uploads/a.png", "/uploads/b.png", NoUrl} : AssetPutBegin(c, h, key, url)
    \/ \E c \in Conns, retried \in BOOLEAN : AssetPutInsert(c, retried)
    \/ \E key \in {"logo", "hero"} : AssetDelete(validHeader("u1"), key)

SpecAssets == InitServer /\ [][NextAssets]_vars

\* C25: a key has at most one mapping, and a PUT is answered 200, or 400 when
\* it carries no url (401 and 403 when the caller is no admin), never 500.
C25_AssetUpsert ==
    /\ \A a1, a2 \in assets : a1.key = a2.key => a1 = a2
    /\ last.route = "assetPut" => last.status \in {200, 400, 401, 403}


(***************************************************************************)
(* The fallback file route over an upload directory that gains and loses   *)
(* files.                                                                  *)
(***************************************************************************)
NextFiles ==
    \/ \E files \in {<<"image">>, <<"image", "image">>} : MediaUpload(validHeader("u1"), files)
    \/ \E n \in FileNames : MediaDelete(validHeader("u1"), storedName(n))
    \* the path segments of GET /files/:name requests
    \/ \E raw \in {storedName(1), storedName(2), <<".">>, <<".", ".">>,
                   <<".", ".", "/", "server.js">>, <<".", ".", "%2F", "server.js">>,
                   <<"%2E", "%2E", "%2F", "server.js">>, <<"1", "%2F", ".", ".", "%2F", "2">>,
                   <<"server.js">>} :
          FileServe(raw)

SpecFiles == InitServer /\ [][NextFiles]_vars

\* C29: every file that GET /files/:name serves lies inside the upload
\* directory.
C29_ServedFromUploads ==
    fnOut.op = "sendFile"
        => /\ Len(fnOut.val) > Len(UploadsDir)
           /\ SubSeq(fnOut.val, 1, Len(UploadsDir)) = UploadsDir


(***************************************************************************)
(* Accounts that are deactivated and reactivated while their tokens stay   *)
(* valid.                                                                  *)
(***************************************************************************)
NextStatus ==
    \/ BlogCreateBegin(1, validHeader("u1"), TitleZaba7, TRUE, TRUE, "none")
    \/ BlogCreateStore(1, "none")
    \/ \E id \in {"u1", "u2"} : UserToggleStatus(validHeader("u1"), id)
    \/ \E h \in GateHeaders : BlogLike(h, FirstId)
    \/ \E h \in GateHeaders : BlogRead(h, normalize(TitleZaba7))

SpecStatus == InitServer /\ [][NextStatus]_vars

\* C30: a request whose valid token names an account with isActive false
\* resolves no identity, and is answered 401 on a route behind protect.
C30_InactiveNotResolved ==
    [][(/\ last'.seq # last.seq
        /\ last'.hdr.token.kind = "valid"
        /\ users[last'.hdr.token.id] # NoUser
        /\ ~users[last'.hdr.token.id].isActive)
       => /\ ~isResolved(last'.user)
          /\ "protect" \in last'.ran => last'.status = 401]_vars

====
